---- MODULE Spec2Model ----
(***************************************************************************)
(* Model of the portfolio engine of finance-assets-tracker: the holdings   *)
(* aggregator and realized P/L (lib/calculations.ts), the transaction      *)
(* server actions (actions/transactions.ts), the daily time-series replay  *)
(* (hooks/use-portfolio-history.ts) and the benchmark simulator            *)
(* (hooks/use-benchmark-data.ts).                                          *)
(*                                                                         *)
(* Numbers.  A JavaScript number is modelled as an exact rational          *)
(* [n |-> numerator, d |-> denominator] in lowest terms with d > 0; the    *)
(* non-finite values are d = 0: n = 1 is Infinity, n = -1 is -Infinity and *)
(* n = 0 is NaN.  Rounding of binary floating point is not modelled.       *)
(* Dates.  A transaction_date is a calendar-day number; the time of day,   *)
(* which only orders transactions inside one day, is the list order.       *)
(***************************************************************************)
EXTENDS Integers, Sequences, FiniteSets, TLC

VARIABLES
    calc_pc,            \* "input" while the argument list is built, "done" after the call
    calc_input,         \* the argument `transactions` of calculateHoldings
    calc_output,        \* the Holding[] it returned
    transactions,       \* rows of the table `transactions`, in insertion order
    closed_positions,   \* rows of the table `closed_positions`, in insertion order
    calls,              \* number of server-action calls made so far
    lastOp,             \* the last server action called: its arguments and how it ended
    portfolio_snapshots, \* the rows of table portfolio_snapshots
    cash_operations,    \* the rows of table cash_operations
    storeFailed,        \* some store request of an addTransaction call returned an error
    hook_transactions,  \* the `transactions` prop of the two chart hooks
    pd_pc,              \* usePortfolioHistory: "input", "replay" (inside the day loop), "done"
    priceHistory,       \* ticker -> (day -> price), the argument of buildPortfolioData
    sortedTransactions, \* sortedTransactions of buildPortfolioData
    pd_currentDate,     \* currentDate of buildPortfolioData
    pd_txIndex,         \* txIndex of buildPortfolioData (1-based)
    pd_holdings,        \* its Map holdings: ticker -> {quantity, costBasis, avgRate}
    lastKnownPrices,    \* its Map lastKnownPrices: ticker -> price
    pd_result,          \* its array result
    bm_pc,              \* useBenchmarkData: "input", "replay" (inside the day loop), "done"
    priceByDate,        \* day -> benchmark price, the argument of buildBenchmarkSeries
    bm_currentDate,     \* currentDate of buildBenchmarkSeries
    phantomUnits,       \* phantomUnits of buildBenchmarkSeries
    lastKnownPrice,     \* lastKnownPrice of buildBenchmarkSeries (Null or a number)
    bm_result,          \* its array result
    bm_previous,        \* the series served before the transactions prop changed
    db_transactions,    \* dashboard: the user's rows in the store, as [version, length]
    query_transactions, \* useQuery data "transactions", the prop of the chart
    mutation_pc,        \* onSuccess of a mutation: "idle", "refetch", "clear"
    render_pending,     \* the prop changed and the chart has not rendered with it yet
    showBenchmark,      \* useState showBenchmark of the chart
    lastTransactionsLength, \* useState lastTransactionsLength of the chart
    portfolio_cache,    \* localStorage CACHE_KEY: Null or the cached series
    benchmark_cache,    \* localStorage BENCHMARK_CACHE_KEY: Null or the cached prices
    history_data,       \* useState data of usePortfolioHistory
    benchmark_data,     \* useState data of useBenchmarkData
    inflight,           \* loadPortfolioData calls waiting for fetchHistoricalPrices
    servedStale,        \* a series was served out of a cache written for an earlier set
    summary_pc,         \* calculatePortfolioSummary: "input" or "done"
    summary_holdings,   \* its argument holdings (with live data merged)
    summary_closed,     \* its argument closedPositions
    summary_output,     \* its result
    rb_mounted,         \* RefreshButton (with its useRefreshCooldown) is mounted
    stored_last_refresh, \* localStorage LAST_REFRESH_KEY holds a timestamp
    since_last_refresh, \* seconds from that timestamp to now
    cooldownRemaining,  \* useState cooldownRemaining
    interval_on,        \* intervalRef: the one-second interval is running
    isRefreshing,       \* prop isRefreshing of RefreshButton
    refreshes,          \* how many times onRefresh was invoked
    last_click,         \* what the last click on the button did
    pd_today,           \* loadPortfolioData: startOfDay(new Date()), the day it is
    pd_cache,           \* localStorage CACHE_KEY as CacheData: Null or {lastUpdated, data, priceHistory}
    pd_fetched,         \* the loads made so far and the fetchHistoricalPrices call of the last one
    pd_data             \* useState data as loadPortfolioData sets it

calcVars == <<calc_pc, calc_input, calc_output>>

storeVars == <<transactions, closed_positions, calls, lastOp, storeFailed,
               portfolio_snapshots, cash_operations>>

historyVars == <<pd_pc, priceHistory, sortedTransactions, pd_currentDate, pd_txIndex, pd_holdings,
                 lastKnownPrices, pd_result>>

benchmarkVars == <<bm_pc, priceByDate, bm_currentDate, phantomUnits, lastKnownPrice,
                   bm_result, bm_previous>>

cacheVars == <<db_transactions, query_transactions, mutation_pc, render_pending,
               showBenchmark, lastTransactionsLength, portfolio_cache, benchmark_cache,
               history_data, benchmark_data, inflight, servedStale>>

summaryVars == <<summary_pc, summary_holdings, summary_closed, summary_output>>

cooldownVars == <<rb_mounted, stored_last_refresh, since_last_refresh, cooldownRemaining,
                  interval_on, isRefreshing, refreshes, last_click>>

incrementalVars == <<pd_today, pd_cache, pd_fetched, pd_data>>

chartVars == <<hook_transactions, historyVars, benchmarkVars, cacheVars, summaryVars,
               cooldownVars, incrementalVars>>

vars == <<calcVars, storeVars, chartVars>>

-----------------------------------------------------------------------------
(* Bounds and input domains *)

MaxLen == 3

MaxCalls == 3

\* startOfDay(new Date()): the last day of both chart replays
Today == 3

Days == 1..Today

\* a Map.get or a Record lookup that finds nothing
Undefined == [isUndefined |-> TRUE]

Tickers == {"AAPL", "BTC"}

TransactionTypes == {"BUY", "SELL"}

Quantities == {5, 10}

-----------------------------------------------------------------------------
(* JavaScript numbers *)

Abs(x) == IF x < 0 THEN -x ELSE x

Sign(x) == IF x > 0 THEN 1 ELSE IF x < 0 THEN -1 ELSE 0

RECURSIVE Gcd(_, _)
Gcd(a, b) == IF b = 0 THEN a ELSE Gcd(b, a % b)

Norm(n, d) ==
    IF d = 0 THEN [n |-> Sign(n), d |-> 0]
    ELSE LET g == Gcd(Abs(n), Abs(d))
         IN  [n |-> Sign(n) * Sign(d) * (Abs(n) \div g), d |-> Abs(d) \div g]

R(i) == [n |-> i, d |-> 1]

NaN == [n |-> 0, d |-> 0]

Infinity == [n |-> 1, d |-> 0]

Zero == R(0)

IsNaN(a) == a.d = 0 /\ a.n = 0

IsFinite(a) == a.d > 0

Neg(a) == [n |-> -a.n, d |-> a.d]

Add(a, b) ==
    IF IsNaN(a) \/ IsNaN(b) THEN NaN
    ELSE IF a.d = 0 /\ b.d = 0 THEN (IF a.n = b.n THEN a ELSE NaN)
    ELSE IF a.d = 0 THEN a
    ELSE IF b.d = 0 THEN b
    ELSE Norm(a.n * b.d + b.n * a.d, a.d * b.d)

Sub(a, b) == Add(a, Neg(b))

Mul(a, b) ==
    IF IsNaN(a) \/ IsNaN(b) THEN NaN
    ELSE IF a.d = 0 \/ b.d = 0 THEN Norm(Sign(a.n) * Sign(b.n), 0)
    ELSE Norm(a.n * b.n, a.d * b.d)

Div(a, b) ==
    IF IsNaN(a) \/ IsNaN(b) THEN NaN
    ELSE IF b.d = 0 THEN (IF a.d = 0 THEN NaN ELSE Zero)
    ELSE IF a.d = 0 THEN Norm(a.n * (IF b.n < 0 THEN -1 ELSE 1), 0)
    ELSE IF b.n = 0 THEN Norm(Sign(a.n), 0)
    ELSE Norm(a.n * b.d, a.d * b.n)

\* a > b; false when either side is NaN
Gt(a, b) ==
    /\ ~IsNaN(a)
    /\ ~IsNaN(b)
    /\ IF a.d = 0 /\ b.d = 0 THEN a.n > b.n
       ELSE IF a.d = 0 THEN a.n > 0
       ELSE IF b.d = 0 THEN b.n < 0
       ELSE a.n * b.d > b.n * a.d

\* a <= b; false when either side is NaN
Le(a, b) == ~IsNaN(a) /\ ~IsNaN(b) /\ ~Gt(a, b)

RECURSIVE SumSeq(_)
SumSeq(s) == IF s = <<>> THEN Zero ELSE Add(SumSeq(SubSeq(s, 1, Len(s) - 1)), s[Len(s)])

-----------------------------------------------------------------------------
(* Sequences *)

Front(s) == SubSeq(s, 1, Len(s) - 1)

Last(s) == s[Len(s)]

\* Array.prototype.sort with comparator date(b) - date(a): stable, descending
RECURSIVE sortByDateDesc(_)
sortByDateDesc(s) ==
    IF s = <<>> THEN <<>>
    ELSE LET sorted == sortByDateDesc(Front(s))
             x == Last(s)
             p == Cardinality({i \in DOMAIN sorted :
                                 sorted[i].transaction_date >= x.transaction_date})
         IN  SubSeq(sorted, 1, p) \o <<x>> \o SubSeq(sorted, p + 1, Len(sorted))

\* Array.prototype.sort with comparator date(a) - date(b): stable, ascending
RECURSIVE sortByDateAsc(_)
sortByDateAsc(s) ==
    IF s = <<>> THEN <<>>
    ELSE LET sorted == sortByDateAsc(Front(s))
             x == Last(s)
             p == Cardinality({i \in DOMAIN sorted :
                                 sorted[i].transaction_date <= x.transaction_date})
         IN  SubSeq(sorted, 1, p) \o <<x>> \o SubSeq(sorted, p + 1, Len(sorted))

-----------------------------------------------------------------------------
(* lib/calculations.ts *)

Null == [isNull |-> TRUE]

\* keys of the Map built by groupByTicker, in insertion order
RECURSIVE groupKeys(_)
groupKeys(txs) ==
    IF txs = <<>> THEN <<>>
    ELSE LET rest == groupKeys(Front(txs))
             t == Last(txs).ticker
         IN  IF \E i \in DOMAIN rest : rest[i] = t THEN rest ELSE Append(rest, t)

groupByTicker(txs) ==
    LET keys == groupKeys(txs)
    IN  [i \in DOMAIN keys |->
            [ticker |-> keys[i],
             transactions |-> SelectSeq(txs, LAMBDA x : x.ticker = keys[i])]]

buyTransactions(txs) ==
    SelectSeq(txs, LAMBDA t : t.transaction_type = "BUY")

sellTransactions(txs) ==
    SelectSeq(txs, LAMBDA t : t.transaction_type = "SELL")

totalBought(txs) ==
    LET buys == buyTransactions(txs)
    IN  SumSeq([i \in DOMAIN buys |-> buys[i].quantity])

totalSold(txs) ==
    LET sells == sellTransactions(txs)
    IN  SumSeq([i \in DOMAIN sells |-> sells[i].quantity])

currentQuantity_NoSells(txs) == totalBought(txs)

currentQuantity(txs) == Sub(totalBought(txs), totalSold(txs))

totalCostOriginal(txs) ==
    LET buys == buyTransactions(txs)
    IN  SumSeq([i \in DOMAIN buys |-> Mul(buys[i].quantity, buys[i].price_per_share)])

totalCostPLN(txs) ==
    LET buys == buyTransactions(txs)
    IN  SumSeq([i \in DOMAIN buys |->
                  Mul(Mul(buys[i].quantity, buys[i].price_per_share),
                      buys[i].exchange_rate_to_pln)])

weightedExchangeRateSum(txs) ==
    LET buys == buyTransactions(txs)
    IN  SumSeq([i \in DOMAIN buys |-> Mul(buys[i].exchange_rate_to_pln, buys[i].quantity)])

avgBuyPrice_Unweighted(txs) ==
    LET buys == buyTransactions(txs)
    IN  Div(SumSeq([i \in DOMAIN buys |-> buys[i].price_per_share]), R(Len(buys)))

avgBuyPrice(txs) ==
    Div(totalCostOriginal(txs), totalBought(txs))

avgExchangeRate(txs) ==
    Div(weightedExchangeRateSum(txs), totalBought(txs))

costBasisRatio_NoReduction(txs) == R(1)

costBasisRatio(txs) ==
    Div(currentQuantity(txs), totalBought(txs))

returnsEarly_EmptyOnly(txs) == Len(txs) = 0

\* if (transactions.length === 0) return null; if (currentQuantity <= 0) return null
returnsEarly(txs) == Len(txs) = 0 \/ Le(currentQuantity(txs), Zero)

\* the divisors of the divisions calculateSingleHolding performs, in order:
\* avgBuyPrice, avgExchangeRate, costBasisRatio
divisorsOf(txs) ==
    IF returnsEarly(txs) THEN <<>>
    ELSE <<totalBought(txs), totalBought(txs), totalBought(txs)>>

calculateSingleHolding(ticker, txs) ==
    IF returnsEarly(txs) THEN Null
    ELSE [ticker |-> ticker,
          total_quantity |-> currentQuantity(txs),
          avg_buy_price |-> avgBuyPrice(txs),
          avg_exchange_rate |-> avgExchangeRate(txs),
          total_invested_pln |-> Mul(totalCostPLN(txs), costBasisRatio(txs)),
          transactions |-> sortByDateDesc(txs)]

calculateHoldings(txs) ==
    LET grouped == groupByTicker(txs)
        each == [i \in DOMAIN grouped |->
                    calculateSingleHolding(grouped[i].ticker, grouped[i].transactions)]
    IN  SelectSeq(each, LAMBDA h : h # Null /\ Gt(h.total_quantity, Zero))

calculateRealizedProfit(avgBuyPriceArg, avgBuyExchangeRate, sellPrice, sellExchangeRate, quantity) ==
    LET costBasisPLN == Mul(Mul(quantity, avgBuyPriceArg), avgBuyExchangeRate)
        saleValuePLN == Mul(Mul(quantity, sellPrice), sellExchangeRate)
    IN  Sub(saleValuePLN, costBasisPLN)

-----------------------------------------------------------------------------
(* Input domain: the trades of the worked scenario of the documentation     *)
(* (10 and 5 units; 100 @ 4.0 on day 1, 120 @ 4.1 on day 2, 150 @ 4.2 on    *)
(* day 3), for either ticker, as BUY or SELL, in any combination and order. *)

Quotes ==
    { [price_per_share |-> R(100), exchange_rate_to_pln |-> R(4), transaction_date |-> 1],
      [price_per_share |-> R(120), exchange_rate_to_pln |-> Norm(41, 10), transaction_date |-> 2],
      [price_per_share |-> R(150), exchange_rate_to_pln |-> Norm(42, 10), transaction_date |-> 3] }

Forms ==
    { [ticker |-> t, transaction_type |-> ty, quantity |-> R(q),
       price_per_share |-> k.price_per_share,
       exchange_rate_to_pln |-> k.exchange_rate_to_pln,
       transaction_date |-> k.transaction_date] :
         t \in Tickers, ty \in TransactionTypes, q \in Quantities, k \in Quotes }

Row(id, form) ==
    [id |-> id, ticker |-> form.ticker, transaction_type |-> form.transaction_type,
     quantity |-> form.quantity, price_per_share |-> form.price_per_share,
     exchange_rate_to_pln |-> form.exchange_rate_to_pln,
     transaction_date |-> form.transaction_date]

\* nothing computed, both tables empty, no chart hook mounted
Init ==
    /\ calc_pc = "input"
    /\ calc_input = <<>>
    /\ calc_output = <<>>
    /\ transactions = <<>>
    /\ closed_positions = <<>>
    /\ calls = 0
    /\ lastOp = [op |-> "none"]
    /\ portfolio_snapshots = <<>>
    /\ cash_operations = <<[id |-> 1, user_id |-> "u1"], [id |-> 2, user_id |-> "u2"]>>
    /\ storeFailed = FALSE
    /\ hook_transactions = <<>>
    /\ pd_pc = "input"
    /\ priceHistory = [t \in Tickers |-> [d \in Days |-> Undefined]]
    /\ sortedTransactions = <<>>
    /\ pd_currentDate = 0
    /\ pd_txIndex = 1
    /\ pd_holdings = [t \in Tickers |-> Undefined]
    /\ lastKnownPrices = [t \in Tickers |-> Undefined]
    /\ pd_result = <<>>
    /\ bm_pc = "input"
    /\ priceByDate = [d \in Days |-> Undefined]
    /\ bm_currentDate = 0
    /\ phantomUnits = Zero
    /\ lastKnownPrice = Null
    /\ bm_result = <<>>
    /\ bm_previous = [changed |-> FALSE]
    /\ db_transactions = [version |-> 0, length |-> 1]
    /\ query_transactions = [version |-> 0, length |-> 1]
    /\ mutation_pc = "idle"
    /\ render_pending = FALSE
    /\ showBenchmark = FALSE
    /\ lastTransactionsLength = 1
    /\ portfolio_cache = [data |-> [of |-> 0]]
    /\ benchmark_cache = [isNull |-> TRUE]
    /\ history_data = [of |-> 0]
    /\ benchmark_data = <<>>
    /\ inflight = {}
    /\ servedStale = FALSE
    /\ summary_pc = "input"
    /\ summary_holdings = <<>>
    /\ summary_closed = <<>>
    /\ summary_output = <<>>
    /\ rb_mounted = TRUE
    /\ stored_last_refresh = FALSE
    /\ since_last_refresh = 0
    /\ cooldownRemaining = 0
    /\ interval_on = FALSE
    /\ isRefreshing = FALSE
    /\ refreshes = 0
    /\ last_click = "none"
    /\ pd_today = 1
    /\ pd_cache = Null
    /\ pd_fetched = [loads |-> 0, forceRefresh |-> FALSE, request |-> Null]
    /\ pd_data = <<>>

-----------------------------------------------------------------------------
(* actions/transactions.ts: the server actions over the two tables *)

NoUser == "none"

Users == {"u1"}

\* what a form can carry in the store specifications: the first two quotes
StoreForms == {f \in Forms : f.transaction_date <= 2}

StoredRow(id, userId, form) ==
    [id |-> id, user_id |-> userId, ticker |-> form.ticker,
     transaction_type |-> form.transaction_type,
     quantity |-> form.quantity, price_per_share |-> form.price_per_share,
     exchange_rate_to_pln |-> form.exchange_rate_to_pln,
     transaction_date |-> form.transaction_date]

\* .from('transactions').select('*').eq('user_id', userId).eq('ticker', ticker)
existingTransactions(userId, ticker) ==
    SelectSeq(transactions, LAMBDA r : r.user_id = userId /\ r.ticker = ticker)

\* holdings.find((h) => h.ticker === formData.ticker)
findHolding(holdings, ticker) ==
    LET found == SelectSeq(holdings, LAMBDA h : h.ticker = ticker)
    IN  IF found = <<>> THEN Null ELSE found[1]

closedPositionRow_BuyRateFromForm(id, userId, formData, holding) ==
    [id |-> id, user_id |-> userId, ticker |-> formData.ticker,
     quantity_sold |-> formData.quantity,
     avg_buy_price_original |-> holding.avg_buy_price,
     avg_buy_exchange_rate |-> formData.exchange_rate_to_pln,
     sell_price |-> formData.price_per_share,
     sell_exchange_rate |-> formData.exchange_rate_to_pln,
     realized_profit_pln |->
         calculateRealizedProfit(holding.avg_buy_price, formData.exchange_rate_to_pln,
                                 formData.price_per_share, formData.exchange_rate_to_pln,
                                 formData.quantity),
     closed_date |-> formData.transaction_date]

closedPositionRow_WholePosition(id, userId, formData, holding) ==
    [id |-> id, user_id |-> userId, ticker |-> formData.ticker,
     quantity_sold |-> holding.total_quantity,
     avg_buy_price_original |-> holding.avg_buy_price,
     avg_buy_exchange_rate |-> holding.avg_exchange_rate,
     sell_price |-> formData.price_per_share,
     sell_exchange_rate |-> formData.exchange_rate_to_pln,
     realized_profit_pln |->
         calculateRealizedProfit(holding.avg_buy_price, holding.avg_exchange_rate,
                                 formData.price_per_share, formData.exchange_rate_to_pln,
                                 formData.quantity),
     closed_date |-> formData.transaction_date]

\* the row handleSellTransaction inserts into closed_positions
closedPositionRow(id, userId, formData, holding) ==
    [id |-> id, user_id |-> userId, ticker |-> formData.ticker,
     quantity_sold |-> formData.quantity,
     avg_buy_price_original |-> holding.avg_buy_price,
     avg_buy_exchange_rate |-> holding.avg_exchange_rate,
     sell_price |-> formData.price_per_share,
     sell_exchange_rate |-> formData.exchange_rate_to_pln,
     realized_profit_pln |->
         calculateRealizedProfit(holding.avg_buy_price, holding.avg_exchange_rate,
                                 formData.price_per_share, formData.exchange_rate_to_pln,
                                 formData.quantity),
     closed_date |-> formData.transaction_date]

insertClosedPosition_ReplaceSameTicker(row) ==
    Append(SelectSeq(closed_positions, LAMBDA c : c.ticker # row.ticker), row)

\* .from('closed_positions').insert(row)
insertClosedPosition(row) == Append(closed_positions, row)

handleSellTransaction_AnySell(userId, formData, fetchError, insertError) ==
    LET holding == findHolding(calculateHoldings(existingTransactions(userId, formData.ticker)),
                               formData.ticker)
        basis == IF holding = Null
                 THEN [avg_buy_price |-> Zero, avg_exchange_rate |-> Zero]
                 ELSE holding
    IN  insertClosedPosition(closedPositionRow(calls + 1, userId, formData, basis))

handleSellTransaction_RecordsOnFailedFetch(userId, formData, fetchError, insertError) ==
    LET holdings == calculateHoldings(existingTransactions(userId, formData.ticker))
        holding == findHolding(holdings, formData.ticker)
    IN  IF holding = Null THEN closed_positions
        ELSE IF insertError THEN closed_positions
        ELSE insertClosedPosition(closedPositionRow(calls + 1, userId, formData, holding))

\* the closed_positions table after handleSellTransaction(supabase, userId, formData)
handleSellTransaction(userId, formData, fetchError, insertError) ==
    IF fetchError THEN closed_positions
    ELSE LET holdings == calculateHoldings(existingTransactions(userId, formData.ticker))
             holding == findHolding(holdings, formData.ticker)
         IN  IF holding = Null THEN closed_positions
             ELSE IF insertError THEN closed_positions
             ELSE insertClosedPosition(closedPositionRow(calls + 1, userId, formData, holding))

AddTransaction(user, formData, fetchError, closedError, insertError) ==
    /\ calls < MaxCalls
    /\ (user = NoUser) => ~insertError
    /\ (user = NoUser \/ formData.transaction_type = "BUY") => ~fetchError
    /\ (user = NoUser \/ formData.transaction_type = "BUY" \/ fetchError) => ~closedError
    /\ calls' = calls + 1
    /\ IF user = NoUser
       THEN /\ UNCHANGED <<transactions, closed_positions, storeFailed>>
            /\ lastOp' = [op |-> "addTransaction", user |-> user, form |-> formData,
                          fetchError |-> FALSE, closedError |-> FALSE,
                          result |-> "Not authenticated"]
       ELSE /\ closed_positions' =
                  IF formData.transaction_type = "SELL"
                  THEN handleSellTransaction(user, formData, fetchError, closedError)
                  ELSE closed_positions
            /\ transactions' =
                  IF insertError THEN transactions
                  ELSE Append(transactions, StoredRow(calls + 1, user, formData))
            /\ storeFailed' = (storeFailed \/ fetchError \/ closedError \/ insertError)
            /\ lastOp' = [op |-> "addTransaction", user |-> user, form |-> formData,
                          fetchError |-> fetchError, closedError |-> closedError,
                          result |-> IF insertError THEN "Failed to add transaction" ELSE "ok"]
    /\ UNCHANGED <<portfolio_snapshots, cash_operations>>
    /\ UNCHANGED <<calcVars, chartVars>>

\* the row with the fields of `updates` written over it
updatedRow(row, updates) ==
    [row EXCEPT !.ticker = updates.ticker,
                !.transaction_type = updates.transaction_type,
                !.quantity = updates.quantity,
                !.price_per_share = updates.price_per_share,
                !.exchange_rate_to_pln = updates.exchange_rate_to_pln,
                !.transaction_date = updates.transaction_date]

UpdateTransaction(user, transactionId, updates, error) ==
    /\ calls < MaxCalls
    /\ (user = NoUser) => ~error
    /\ calls' = calls + 1
    /\ lastOp' = [op |-> "updateTransaction", user |-> user, id |-> transactionId,
                  result |-> IF user = NoUser THEN "Not authenticated"
                             ELSE IF error \/ ~\E i \in DOMAIN transactions :
                                                 /\ transactions[i].id = transactionId
                                                 /\ transactions[i].user_id = user
                                  THEN "Failed to update transaction"
                                  ELSE "ok"]
    /\ transactions' =
          IF user = NoUser \/ error THEN transactions
          ELSE [i \in DOMAIN transactions |->
                  IF transactions[i].id = transactionId /\ transactions[i].user_id = user
                  THEN updatedRow(transactions[i], updates)
                  ELSE transactions[i]]
    /\ UNCHANGED <<closed_positions, storeFailed>>
    /\ UNCHANGED <<portfolio_snapshots, cash_operations>>
    /\ UNCHANGED <<calcVars, chartVars>>

DeleteTransaction(user, transactionId, error) ==
    /\ calls < MaxCalls
    /\ (user = NoUser) => ~error
    /\ calls' = calls + 1
    /\ lastOp' = [op |-> "deleteTransaction", user |-> user, id |-> transactionId,
                  result |-> IF user = NoUser THEN "Not authenticated"
                             ELSE IF error THEN "Failed to delete transaction"
                             ELSE "ok"]
    /\ transactions' =
          IF user = NoUser \/ error THEN transactions
          ELSE SelectSeq(transactions,
                         LAMBDA r : ~(r.id = transactionId /\ r.user_id = user))
    /\ UNCHANGED <<closed_positions, storeFailed>>
    /\ UNCHANGED <<portfolio_snapshots, cash_operations>>
    /\ UNCHANGED <<calcVars, chartVars>>

NextAdd ==
    \E user \in Users \cup {NoUser}, formData \in StoreForms,
       fetchError \in BOOLEAN, closedError \in BOOLEAN, insertError \in BOOLEAN :
        AddTransaction(user, formData, fetchError, closedError, insertError)

NextEdit ==
    \/ \E user \in Users \cup {NoUser}, formData \in StoreForms,
          fetchError \in BOOLEAN, closedError \in BOOLEAN, insertError \in BOOLEAN :
           AddTransaction(user, formData, fetchError, closedError, insertError)
    \/ \E user \in Users \cup {NoUser}, transactionId \in 1..MaxCalls, updates \in StoreForms,
          error \in BOOLEAN :
           UpdateTransaction(user, transactionId, updates, error)
    \/ \E user \in Users \cup {NoUser}, transactionId \in 1..MaxCalls, error \in BOOLEAN :
           DeleteTransaction(user, transactionId, error)

\* addTransaction calls only
SpecAdd == Init /\ [][NextAdd]_vars

\* addTransaction, updateTransaction and deleteTransaction calls
Spec == Init /\ [][NextEdit]_vars

-----------------------------------------------------------------------------
(* All server actions, called by two users or by nobody *)

AuthUsers == {"u1", "u2"}

\* the forms of this specification: one quote, one lot size
AuthForms == {f \in StoreForms : f.transaction_date = 1 /\ f.quantity = R(10)}

\* savePortfolioSnapshot's arguments: value, invested, profit
SnapshotTotals == {<<R(100), R(100), Zero>>, <<R(200), R(100), R(100)>>}

isOwn_AnyUser(row, userId) == TRUE

\* .eq('user_id', user.id)
isOwn(row, userId) == row.user_id = userId

\* .select('*').eq('user_id', user.id)
ownRows(rows, userId) == SelectSeq(rows, LAMBDA r : isOwn(r, userId))

\* .delete().eq('user_id', user.id)
withoutOwnRows(rows, userId) == SelectSeq(rows, LAMBDA r : ~isOwn(r, userId))

\* .order('closed_date', { ascending: false })
RECURSIVE closedByDateDesc(_)
closedByDateDesc(s) ==
    IF s = <<>> THEN <<>>
    ELSE LET sorted == closedByDateDesc(Front(s))
             x == Last(s)
             p == Cardinality({i \in DOMAIN sorted : sorted[i].closed_date >= x.closed_date})
         IN  SubSeq(sorted, 1, p) \o <<x>> \o SubSeq(sorted, p + 1, Len(sorted))

\* a server action that only reads: what it leaves alone
ReadOnly ==
    UNCHANGED <<transactions, closed_positions, portfolio_snapshots, cash_operations,
                storeFailed, calcVars, chartVars>>

GetTransactions(user, error) ==
    /\ calls < MaxCalls
    /\ (user = NoUser) => ~error
    /\ calls' = calls + 1
    /\ lastOp' = [op |-> "getTransactions", user |-> user,
                  result |-> IF user = NoUser THEN "Not authenticated"
                             ELSE IF error THEN "Failed to fetch transactions"
                             ELSE "ok",
                  data |-> IF user = NoUser \/ error THEN <<>>
                           ELSE sortByDateDesc(ownRows(transactions, user))]
    /\ ReadOnly

GetClosedPositions(user, error) ==
    /\ calls < MaxCalls
    /\ (user = NoUser) => ~error
    /\ calls' = calls + 1
    /\ lastOp' = [op |-> "getClosedPositions", user |-> user,
                  result |-> IF user = NoUser THEN "Not authenticated"
                             ELSE IF error THEN "Failed to fetch closed positions"
                             ELSE "ok",
                  data |-> IF user = NoUser \/ error THEN <<>>
                           ELSE closedByDateDesc(ownRows(closed_positions, user))]
    /\ ReadOnly

\* every snapshot of a user is dated today here, so the order by
\* snapshot_date leaves the rows as they are
GetPortfolioSnapshots(user, error) ==
    /\ calls < MaxCalls
    /\ (user = NoUser) => ~error
    /\ calls' = calls + 1
    /\ lastOp' = [op |-> "getPortfolioSnapshots", user |-> user,
                  result |-> IF user = NoUser THEN "Not authenticated"
                             ELSE IF error THEN "Failed to fetch portfolio snapshots"
                             ELSE "ok",
                  data |-> IF user = NoUser \/ error THEN <<>>
                           ELSE ownRows(portfolio_snapshots, user)]
    /\ ReadOnly

\* upsert on conflict (user_id, snapshot_date), snapshot_date being today
SavePortfolioSnapshot(user, totals, error) ==
    /\ calls < MaxCalls
    /\ (user = NoUser) => ~error
    /\ calls' = calls + 1
    /\ lastOp' = [op |-> "savePortfolioSnapshot", user |-> user,
                  result |-> IF user = NoUser THEN "Not authenticated"
                             ELSE IF error THEN "Failed to save portfolio snapshot"
                             ELSE "ok"]
    /\ portfolio_snapshots' =
          IF user = NoUser \/ error THEN portfolio_snapshots
          ELSE LET row == [user_id |-> user, snapshot_date |-> Today,
                           total_value_pln |-> totals[1],
                           total_invested_pln |-> totals[2],
                           total_profit_pln |-> totals[3]]
                   conflicts(r) == r.user_id = user /\ r.snapshot_date = Today
               IN  IF \E i \in DOMAIN portfolio_snapshots : conflicts(portfolio_snapshots[i])
                   THEN [i \in DOMAIN portfolio_snapshots |->
                           IF conflicts(portfolio_snapshots[i]) THEN row
                           ELSE portfolio_snapshots[i]]
                   ELSE Append(portfolio_snapshots, row)
    /\ UNCHANGED <<transactions, closed_positions, cash_operations, storeFailed,
                   calcVars, chartVars>>

DeleteAllTransactionsForTicker(user, ticker, closedError, error) ==
    /\ calls < MaxCalls
    /\ (user = NoUser) => (~closedError /\ ~error)
    /\ calls' = calls + 1
    /\ lastOp' = [op |-> "deleteAllTransactionsForTicker", user |-> user, ticker |-> ticker,
                  result |-> IF user = NoUser THEN "Not authenticated"
                             ELSE IF error THEN "Failed to delete transactions"
                             ELSE "ok"]
    /\ closed_positions' =
          IF user = NoUser \/ closedError THEN closed_positions
          ELSE SelectSeq(closed_positions, LAMBDA c : ~(c.ticker = ticker /\ isOwn(c, user)))
    /\ transactions' =
          IF user = NoUser \/ error THEN transactions
          ELSE SelectSeq(transactions, LAMBDA r : ~(r.ticker = ticker /\ isOwn(r, user)))
    /\ UNCHANGED <<portfolio_snapshots, cash_operations, storeFailed, calcVars, chartVars>>

DeleteAllTransactions(user, closedError, error) ==
    /\ calls < MaxCalls
    /\ (user = NoUser) => ~closedError
    /\ (user = NoUser \/ closedError) => ~error
    /\ calls' = calls + 1
    /\ lastOp' = [op |-> "deleteAllTransactions", user |-> user,
                  result |-> IF user = NoUser THEN "Not authenticated"
                             ELSE IF closedError THEN "Failed to delete closed positions"
                             ELSE IF error THEN "Failed to delete all transactions"
                             ELSE "ok"]
    /\ closed_positions' =
          IF user = NoUser \/ closedError THEN closed_positions
          ELSE withoutOwnRows(closed_positions, user)
    /\ transactions' =
          IF user = NoUser \/ closedError \/ error THEN transactions
          ELSE withoutOwnRows(transactions, user)
    /\ portfolio_snapshots' =
          IF user = NoUser \/ closedError \/ error THEN portfolio_snapshots
          ELSE withoutOwnRows(portfolio_snapshots, user)
    /\ cash_operations' =
          IF user = NoUser \/ closedError \/ error THEN cash_operations
          ELSE withoutOwnRows(cash_operations, user)
    /\ UNCHANGED <<storeFailed, calcVars, chartVars>>

DeleteAllClosedPositions(user, error) ==
    /\ calls < MaxCalls
    /\ (user = NoUser) => ~error
    /\ calls' = calls + 1
    /\ lastOp' = [op |-> "deleteAllClosedPositions", user |-> user,
                  result |-> IF user = NoUser THEN "Not authenticated"
                             ELSE IF error THEN "Failed to delete closed positions"
                             ELSE "ok"]
    /\ closed_positions' =
          IF user = NoUser \/ error THEN closed_positions
          ELSE withoutOwnRows(closed_positions, user)
    /\ UNCHANGED <<transactions, portfolio_snapshots, cash_operations, storeFailed,
                   calcVars, chartVars>>

NextAuth ==
    \/ \E user \in AuthUsers \cup {NoUser}, formData \in AuthForms :
           AddTransaction(user, formData, FALSE, FALSE, FALSE)
    \/ \E user \in AuthUsers \cup {NoUser}, transactionId \in 1..MaxCalls,
          updates \in AuthForms :
           UpdateTransaction(user, transactionId, updates, FALSE)
    \/ \E user \in AuthUsers \cup {NoUser}, transactionId \in 1..MaxCalls :
           DeleteTransaction(user, transactionId, FALSE)
    \/ \E user \in AuthUsers \cup {NoUser}, error \in BOOLEAN :
           GetTransactions(user, error)
    \/ \E user \in AuthUsers \cup {NoUser}, error \in BOOLEAN :
           GetClosedPositions(user, error)
    \/ \E user \in AuthUsers \cup {NoUser}, error \in BOOLEAN :
           GetPortfolioSnapshots(user, error)
    \/ \E user \in AuthUsers \cup {NoUser}, totals \in SnapshotTotals, error \in BOOLEAN :
           SavePortfolioSnapshot(user, totals, error)
    \/ \E user \in AuthUsers \cup {NoUser}, ticker \in Tickers,
          closedError \in BOOLEAN, error \in BOOLEAN :
           DeleteAllTransactionsForTicker(user, ticker, closedError, error)
    \/ \E user \in AuthUsers \cup {NoUser}, closedError \in BOOLEAN, error \in BOOLEAN :
           DeleteAllTransactions(user, closedError, error)
    \/ \E user \in AuthUsers \cup {NoUser}, error \in BOOLEAN :
           DeleteAllClosedPositions(user, error)

SpecAuth == Init /\ [][NextAuth]_vars

-----------------------------------------------------------------------------
(* The server actions that make more than one store request, each request   *)
(* able to fail on its own                                                   *)

NextMultiStep ==
    \/ \E user \in Users \cup {NoUser}, formData \in StoreForms,
          fetchError \in BOOLEAN, closedError \in BOOLEAN, insertError \in BOOLEAN :
           AddTransaction(user, formData, fetchError, closedError, insertError)
    \/ \E user \in Users \cup {NoUser}, ticker \in Tickers,
          closedError \in BOOLEAN, error \in BOOLEAN :
           DeleteAllTransactionsForTicker(user, ticker, closedError, error)
    \/ \E user \in Users \cup {NoUser}, closedError \in BOOLEAN, error \in BOOLEAN :
           DeleteAllTransactions(user, closedError, error)

SpecMultiStep == Init /\ [][NextMultiStep]_vars

-----------------------------------------------------------------------------
(* Specification SpecHoldings: calculateHoldings applied to any list *)

CalcAppend(form) ==
    /\ calc_pc = "input"
    /\ Len(calc_input) < MaxLen
    /\ calc_input' = Append(calc_input, Row(Len(calc_input) + 1, form))
    /\ UNCHANGED <<calc_pc, calc_output>>
    /\ UNCHANGED <<storeVars, chartVars>>

inputAfterCall_SortedInPlace(txs) == sortByDateDesc(txs)

\* the caller's array after calculateHoldings(transactions): groupByTicker
\* only iterates it and pushes its elements onto arrays of its own, and the
\* sort in place of calculateSingleHolding is applied to those
inputAfterCall(txs) == txs

CalcRun ==
    /\ calc_pc = "input"
    /\ calc_output' = calculateHoldings(calc_input)
    /\ calc_pc' = "done"
    /\ calc_input' = inputAfterCall(calc_input)
    /\ UNCHANGED <<storeVars, chartVars>>

NextHoldings ==
    \/ \E form \in Forms : CalcAppend(form)
    \/ CalcRun

SpecHoldings == Init /\ [][NextHoldings]_vars

\* calculateHoldings called once more with the array of the first call
CalcRerun ==
    /\ calc_pc = "done"
    /\ calc_output' = calculateHoldings(calc_input)
    /\ calc_pc' = "rerun"
    /\ calc_input' = inputAfterCall(calc_input)
    /\ UNCHANGED <<storeVars, chartVars>>

NextRerun ==
    \/ \E form \in Forms : CalcAppend(form)
    \/ CalcRun
    \/ CalcRerun

SpecRerun == Init /\ [][NextRerun]_vars

-----------------------------------------------------------------------------
(* The chart hooks: what they are given *)

\* what a transaction of the charts can be: bought in lots of 10, sold in 5s or 10s
HookForms ==
    {f \in Forms : /\ f.transaction_date <= Today
                   /\ f.transaction_type = "BUY" => f.quantity = R(10)}

\* getTransactions: .order('transaction_date', { ascending: false }); the order
\* inside one day is whatever the store returns
HookInput(form) ==
    /\ pd_pc = "input"
    /\ bm_pc = "input"
    /\ Len(hook_transactions) < MaxLen
    /\ IF hook_transactions = <<>> THEN TRUE
       ELSE form.transaction_date <= Last(hook_transactions).transaction_date
    /\ hook_transactions' =
          Append(hook_transactions, Row(Len(hook_transactions) + 1, form))
    /\ UNCHANGED <<calcVars, storeVars, cooldownVars, incrementalVars, cacheVars, summaryVars, historyVars, benchmarkVars>>

\* sum of the numbers f[x], x in S, starting from 0
RECURSIVE SumNumbers(_, _)
SumNumbers(f, S) ==
    IF S = {} THEN Zero
    ELSE LET x == CHOOSE y \in S : TRUE
         IN  Add(f[x], SumNumbers(f, S \ {x}))

-----------------------------------------------------------------------------
(* hooks/use-portfolio-history.ts: the daily replay *)

getEarliestTransactionDate == sortByDateAsc(hook_transactions)[1].transaction_date

\* the closing price the price source has for a ticker on a day it traded
MarketPrice(ticker, day) ==
    IF ticker = "AAPL" THEN R(100 + 10 * day) ELSE R(200 + 20 * day)

\* [...new Set(transactions.map((t) => t.ticker))]
getUniqueTickers == {hook_transactions[i].ticker : i \in DOMAIN hook_transactions}

\* fetchHistoricalPrices(tickers, earliestDate, today), as a Record: the
\* tickers of the transactions have a price on each trading day, and the
\* trading days are any subset of the days from earliestDate to today
FetchedPriceHistories ==
    IF hook_transactions = <<>> THEN {[t \in Tickers |-> [d \in Days |-> Undefined]]}
    ELSE {[t \in Tickers |->
             [d \in Days |-> IF t \in getUniqueTickers /\ d \in tradingDays
                             THEN MarketPrice(t, d) ELSE Undefined]] :
            tradingDays \in SUBSET (getEarliestTransactionDate..Today)}

\* the body of the inner while loop: one transaction applied to the Map holdings
applyTransaction(holdings, tx) ==
    LET existing == IF holdings[tx.ticker] # Undefined THEN holdings[tx.ticker]
                    ELSE [quantity |-> Zero, costBasis |-> Zero,
                          avgRate |-> tx.exchange_rate_to_pln]
        txCost == Mul(Mul(tx.quantity, tx.price_per_share), tx.exchange_rate_to_pln)
        boughtCost == Add(existing.costBasis, txCost)
        sellRatio == Div(tx.quantity, existing.quantity)
    IN  IF tx.transaction_type = "BUY"
        THEN [holdings EXCEPT ![tx.ticker] =
                [quantity |-> Add(existing.quantity, tx.quantity),
                 costBasis |-> boughtCost,
                 avgRate |->
                    IF Gt(boughtCost, Zero)
                    THEN Div(Add(Mul(existing.avgRate, Sub(boughtCost, txCost)),
                                 Mul(tx.exchange_rate_to_pln, txCost)),
                             boughtCost)
                    ELSE tx.exchange_rate_to_pln]]
        ELSE [holdings EXCEPT ![tx.ticker] =
                [quantity |-> Sub(existing.quantity, tx.quantity),
                 costBasis |-> Sub(existing.costBasis, Mul(existing.costBasis, sellRatio)),
                 avgRate |-> existing.avgRate]]

processDay_OnePerDay(holdings, txIndex, date) ==
    IF /\ txIndex <= Len(sortedTransactions)
       /\ sortedTransactions[txIndex].transaction_date = date
    THEN [holdings |-> applyTransaction(holdings, sortedTransactions[txIndex]),
          txIndex |-> txIndex + 1]
    ELSE [holdings |-> holdings, txIndex |-> txIndex]

\* the inner while loop: every transaction of the day, from txIndex on
RECURSIVE processDay(_, _, _)
processDay(holdings, txIndex, date) ==
    IF /\ txIndex <= Len(sortedTransactions)
       /\ sortedTransactions[txIndex].transaction_date = date
    THEN processDay(applyTransaction(holdings, sortedTransactions[txIndex]),
                    txIndex + 1, date)
    ELSE [holdings |-> holdings, txIndex |-> txIndex]

\* if (holding.quantity <= 0) continue
isHeld(holding) == holding # Undefined /\ ~Le(holding.quantity, Zero)

\* the price of a held ticker for the day: the day's own, else the last known
dayPriceOf(ticker, date) ==
    IF priceHistory[ticker][date] # Undefined THEN priceHistory[ticker][date]
    ELSE lastKnownPrices[ticker]

\* what a held ticker adds to totalMarketValue
marketValueOf(holding, price) ==
    IF price # Undefined THEN Mul(Mul(price, holding.quantity), holding.avgRate)
    ELSE holding.costBasis

emitsPoint_EveryDay(totalCostBasis) == TRUE

\* if (totalCostBasis > 0)
emitsPoint(totalCostBasis) == Gt(totalCostBasis, Zero)

\* loadPortfolioData with no cache to reuse: fetch, then start the replay
LoadPortfolioData(prices) ==
    /\ pd_pc = "input"
    /\ bm_pc = "input"
    /\ IF hook_transactions = <<>>
       THEN /\ pd_pc' = "done"
            /\ pd_result' = <<>>
            /\ UNCHANGED <<priceHistory, sortedTransactions, pd_currentDate, pd_txIndex,
                           pd_holdings, lastKnownPrices>>
       ELSE /\ pd_pc' = "replay"
            /\ priceHistory' = prices
            /\ sortedTransactions' = sortByDateAsc(hook_transactions)
            /\ pd_currentDate' = getEarliestTransactionDate
            /\ pd_txIndex' = 1
            /\ pd_holdings' = [t \in Tickers |-> Undefined]
            /\ lastKnownPrices' = [t \in Tickers |-> Undefined]
            /\ pd_result' = <<>>
    /\ UNCHANGED <<calcVars, storeVars, cooldownVars, incrementalVars, cacheVars, summaryVars, hook_transactions, benchmarkVars>>

\* totalCostBasis after the loop over holdings.entries()
totalCostBasisOf(holdings) ==
    LET held == {t \in Tickers : isHeld(holdings[t])}
    IN  SumNumbers([t \in held |-> holdings[t].costBasis], held)

\* totalMarketValue after the loop over holdings.entries()
totalMarketValueOf(holdings, date) ==
    LET held == {t \in Tickers : isHeld(holdings[t])}
    IN  SumNumbers([t \in held |-> marketValueOf(holdings[t], dayPriceOf(t, date))], held)

\* the PortfolioDataPoint pushed for a day
dataPoint(date, totalCostBasis, totalMarketValue) ==
    [date |-> date,
     totalCostBasis |-> totalCostBasis,
     totalMarketValue |-> totalMarketValue,
     profit |-> Sub(totalMarketValue, totalCostBasis),
     profitPercent |->
        Mul(Div(Sub(totalMarketValue, totalCostBasis), totalCostBasis), R(100))]

\* one iteration of the outer while loop of buildPortfolioData, and the return
\* (setData) when the loop condition fails after it
BuildDay ==
    /\ pd_pc = "replay"
    /\ pd_holdings' = processDay(pd_holdings, pd_txIndex, pd_currentDate).holdings
    /\ pd_txIndex' = processDay(pd_holdings, pd_txIndex, pd_currentDate).txIndex
    /\ lastKnownPrices' =
          [t \in Tickers |->
             IF isHeld(pd_holdings'[t]) /\ priceHistory[t][pd_currentDate] # Undefined
             THEN priceHistory[t][pd_currentDate]
             ELSE lastKnownPrices[t]]
    /\ pd_result' =
          IF emitsPoint(totalCostBasisOf(pd_holdings'))
          THEN Append(pd_result,
                      dataPoint(pd_currentDate, totalCostBasisOf(pd_holdings'),
                                totalMarketValueOf(pd_holdings', pd_currentDate)))
          ELSE pd_result
    /\ pd_currentDate' = pd_currentDate + 1
    /\ pd_pc' = IF pd_currentDate + 1 > Today THEN "done" ELSE "replay"
    /\ UNCHANGED <<calcVars, storeVars, cooldownVars, incrementalVars, cacheVars, summaryVars, hook_transactions, priceHistory,
                   sortedTransactions, benchmarkVars>>

NextHistory ==
    \/ \E form \in HookForms : HookInput(form)
    \/ \E prices \in FetchedPriceHistories : LoadPortfolioData(prices)
    \/ BuildDay

SpecHistory == Init /\ [][NextHistory]_vars

\* the replay over longer lists: up to MaxHookLen transactions of the first
\* two days, replayed to today
MaxHookLen == 4

ReplayForms == {f \in HookForms : f.transaction_date <= 2}

HookInputReplay(form) ==
    /\ pd_pc = "input"
    /\ bm_pc = "input"
    /\ Len(hook_transactions) < MaxHookLen
    /\ IF hook_transactions = <<>> THEN TRUE
       ELSE form.transaction_date <= Last(hook_transactions).transaction_date
    /\ hook_transactions' =
          Append(hook_transactions, Row(Len(hook_transactions) + 1, form))
    /\ UNCHANGED <<calcVars, storeVars, cooldownVars, incrementalVars, cacheVars, summaryVars, historyVars, benchmarkVars>>

NextReplay ==
    \/ \E form \in ReplayForms : HookInputReplay(form)
    \/ \E prices \in FetchedPriceHistories : LoadPortfolioData(prices)
    \/ BuildDay

SpecReplay == Init /\ [][NextReplay]_vars

-----------------------------------------------------------------------------
(* hooks/use-portfolio-history.ts: loadPortfolioData and its cache, over the *)
(* days from day 1 to Today.  The series is kept as the arguments            *)
(* buildPortfolioData was called with.                                       *)

MaxLoads == 3

\* the transactions of this specification: BUYs of 10 on the first two days
IncrementalForms == {f \in ReplayForms : f.transaction_type = "BUY"}

\* let priceHistory: Record<string, Record<string, number>> = {}
emptyPriceRecord == [t \in Tickers |-> [d \in Days |-> Undefined]]

\* mapToRecord(await fetchHistoricalPrices(tickers, startDate, endDate)): the
\* tickers asked for have a price on each trading day of the range asked for
fetchedPriceRecord(tickers, startDate, endDate, tradingDays) ==
    [t \in Tickers |->
       [d \in Days |-> IF t \in tickers /\ d \in startDate..endDate /\ d \in tradingDays
                       THEN MarketPrice(t, d) ELSE Undefined]]

mergePriceRecords_ReplaceTicker(existing, newData) ==
    [t \in Tickers |->
       IF \E d \in Days : newData[t][d] # Undefined THEN newData[t] ELSE existing[t]]

\* merged[ticker] = { ...merged[ticker], ...prices } for every ticker of newData
mergePriceRecords(existing, newData) ==
    [t \in Tickers |->
       [d \in Days |-> IF newData[t][d] # Undefined THEN newData[t][d] ELSE existing[t][d]]]

\* buildPortfolioData(earliestDate, today, priceHistory) of the transactions at hand
portfolioDataOf(startDate, endDate, prices) ==
    [startDate |-> startDate, endDate |-> endDate, priceHistory |-> prices,
     transactions |-> hook_transactions]

\* !forceRefresh && cache && cache.priceHistory
usesCache(forceRefresh) == ~forceRefresh /\ pd_cache # Null

\* fetchStartDate
fetchStartDate(forceRefresh) ==
    IF usesCache(forceRefresh) THEN pd_cache.lastUpdated + 1 ELSE getEarliestTransactionDate

\* loadPortfolioData(forceRefresh), the price source answering with the days
\* in tradingDays
LoadPortfolioDataCached(forceRefresh, tradingDays) ==
    /\ pd_fetched.loads < MaxLoads
    /\ IF hook_transactions = <<>>
       THEN /\ pd_data' = <<>>
            /\ pd_fetched' = [loads |-> pd_fetched.loads + 1, forceRefresh |-> forceRefresh,
                              request |-> Null]
            /\ tradingDays = {}
            /\ UNCHANGED pd_cache
       ELSE IF usesCache(forceRefresh) /\ pd_cache.lastUpdated = pd_today
       THEN /\ pd_data' = pd_cache.data
            /\ pd_fetched' = [loads |-> pd_fetched.loads + 1, forceRefresh |-> forceRefresh,
                              request |-> Null]
            /\ tradingDays = {}
            /\ UNCHANGED pd_cache
       ELSE LET fetchStart == fetchStartDate(forceRefresh)
                before == IF usesCache(forceRefresh) THEN pd_cache.priceHistory
                          ELSE emptyPriceRecord
                fetches == fetchStart <= pd_today
                newPricesRecord == fetchedPriceRecord(getUniqueTickers, fetchStart, pd_today,
                                                      tradingDays)
                prices == IF fetches THEN mergePriceRecords(before, newPricesRecord)
                          ELSE before
                portfolioData == portfolioDataOf(getEarliestTransactionDate, pd_today, prices)
            IN  /\ tradingDays \subseteq fetchStart..pd_today
                /\ pd_fetched' =
                      [loads |-> pd_fetched.loads + 1, forceRefresh |-> forceRefresh,
                       request |-> IF fetches
                                   THEN [tickers |-> getUniqueTickers,
                                         startDate |-> fetchStart, endDate |-> pd_today,
                                         prices |-> newPricesRecord]
                                   ELSE Null]
                /\ pd_cache' = [lastUpdated |-> pd_today, data |-> portfolioData,
                                priceHistory |-> prices]
                /\ pd_data' = portfolioData
    /\ UNCHANGED <<pd_today, calcVars, storeVars, cooldownVars, cacheVars, summaryVars,
                   hook_transactions, historyVars, benchmarkVars>>

\* midnight passes
NextDayDawns ==
    /\ pd_today < Today
    /\ pd_today' = pd_today + 1
    /\ UNCHANGED <<pd_cache, pd_fetched, pd_data, calcVars, storeVars, cooldownVars, cacheVars,
                   summaryVars, hook_transactions, historyVars, benchmarkVars>>

\* clearPortfolioCache()
ClearPortfolioCache ==
    /\ pd_cache # Null
    /\ pd_cache' = Null
    /\ UNCHANGED <<pd_today, pd_fetched, pd_data, calcVars, storeVars, cooldownVars, cacheVars,
                   summaryVars, hook_transactions, historyVars, benchmarkVars>>

NextIncremental ==
    \/ \E form \in IncrementalForms : HookInput(form)
    \/ \E forceRefresh \in BOOLEAN, tradingDays \in SUBSET Days :
           LoadPortfolioDataCached(forceRefresh, tradingDays)
    \/ NextDayDawns
    \/ ClearPortfolioCache

SpecIncremental == Init /\ [][NextIncremental]_vars

-----------------------------------------------------------------------------
(* hooks/use-benchmark-data.ts: the benchmark simulator *)

benchmarkBuyTransactions_AllTransactions == sortByDateAsc(hook_transactions)

\* useMemo buyTransactions: the BUYs, oldest first
benchmarkBuyTransactions ==
    sortByDateAsc(SelectSeq(hook_transactions, LAMBDA t : t.transaction_type = "BUY"))

\* the date that is null: no day of the calendar
NoDate == 0

\* useMemo earliestDate
earliestDate ==
    IF benchmarkBuyTransactions = <<>> THEN NoDate
    ELSE benchmarkBuyTransactions[1].transaction_date

\* the close of the benchmark index on a day it traded
BenchmarkPrice(day) == R(450 + 50 * day)

\* getBenchmarkHistory(earliestDate, today), as a Record: a price on any
\* subset of the days from earliestDate to today
FetchedBenchmarkPrices ==
    IF earliestDate = NoDate THEN {[d \in Days |-> Undefined]}
    ELSE {[d \in Days |-> IF d \in tradingDays THEN BenchmarkPrice(d) ELSE Undefined] :
            tradingDays \in SUBSET (earliestDate..Today)}

\* amountPLN of one BUY
amountPLN(tx) == Mul(Mul(tx.quantity, tx.price_per_share), tx.exchange_rate_to_pln)

\* txByDate.get(dateStr): the amounts of the day's BUYs; the Map holds no
\* empty array, so the empty sequence stands for the undefined of a day
\* without BUYs
txByDate(date) ==
    LET dayTxs == SelectSeq(benchmarkBuyTransactions,
                            LAMBDA t : t.transaction_date = date)
    IN  [i \in DOMAIN dayTxs |-> [amountPLN |-> amountPLN(dayTxs[i])]]

\* a number | null used as a condition
Truthy(x) == x # Null /\ x # Zero /\ ~IsNaN(x)

\* const dayPrice = priceByDate[dateStr] !== undefined ? priceByDate[dateStr] : lastKnownPrice
dayPrice(date) ==
    IF priceByDate[date] # Undefined THEN priceByDate[date] ELSE lastKnownPrice

\* for (const tx of dayTxs) phantomUnits += tx.amountPLN / lastKnownPrice
RECURSIVE buyUnits(_, _, _)
buyUnits(units, dayTxs, price) ==
    IF dayTxs = <<>> THEN units
    ELSE Add(buyUnits(units, Front(dayTxs), price), Div(Last(dayTxs).amountPLN, price))

convertsBuys_SkipPriceCheck(dayTxs, price) == dayTxs # <<>>

\* if (dayTxs && lastKnownPrice && lastKnownPrice > 0)
convertsBuys(dayTxs, price) ==
    dayTxs # <<>> /\ Truthy(price) /\ Gt(price, Zero)

\* loadBenchmarkData with no cache to reuse: fetch, then start the replay
LoadBenchmarkData(enabled, prices) ==
    /\ bm_pc = "input"
    /\ pd_pc = "input"
    /\ IF ~enabled \/ earliestDate = NoDate \/ benchmarkBuyTransactions = <<>>
       THEN /\ bm_pc' = "done"
            /\ bm_result' = <<>>
            /\ UNCHANGED <<priceByDate, bm_currentDate, phantomUnits, lastKnownPrice>>
       ELSE /\ bm_pc' = "replay"
            /\ priceByDate' = prices
            /\ bm_currentDate' = earliestDate
            /\ phantomUnits' = Zero
            /\ lastKnownPrice' = Null
            /\ bm_result' = <<>>
    /\ UNCHANGED <<calcVars, storeVars, cooldownVars, incrementalVars, cacheVars, summaryVars, hook_transactions, historyVars, bm_previous>>

\* one iteration of the while loop of buildBenchmarkSeries, and the return
\* (setData) when the loop condition fails after it
BenchmarkDay ==
    /\ bm_pc = "replay"
    /\ lastKnownPrice' =
          IF dayPrice(bm_currentDate) # Null THEN dayPrice(bm_currentDate)
          ELSE lastKnownPrice
    /\ phantomUnits' =
          IF convertsBuys(txByDate(bm_currentDate), lastKnownPrice')
          THEN buyUnits(phantomUnits, txByDate(bm_currentDate), lastKnownPrice')
          ELSE phantomUnits
    /\ bm_result' =
          IF Gt(phantomUnits', Zero) /\ Truthy(lastKnownPrice')
          THEN Append(bm_result,
                      [date |-> bm_currentDate,
                       benchmarkValue |-> Mul(phantomUnits', lastKnownPrice')])
          ELSE bm_result
    /\ bm_currentDate' = bm_currentDate + 1
    /\ bm_pc' = IF bm_currentDate + 1 > Today THEN "done" ELSE "replay"
    /\ UNCHANGED <<calcVars, storeVars, cooldownVars, incrementalVars, cacheVars, summaryVars, hook_transactions, historyVars, priceByDate,
                   bm_previous>>

NextBenchmark ==
    \/ \E form \in HookForms : HookInput(form)
    \/ \E enabled \in BOOLEAN, prices \in FetchedBenchmarkPrices :
          LoadBenchmarkData(enabled, prices)
    \/ BenchmarkDay

SpecBenchmark == Init /\ [][NextBenchmark]_vars

-----------------------------------------------------------------------------
(* The benchmark hook when the transactions prop changes by a SELL *)

\* the benchmark never reads a ticker: one ticker is enough here
BenchmarkForms == {f \in HookForms : f.ticker = "AAPL"}

SellForms == {f \in BenchmarkForms : f.transaction_type = "SELL"}

\* the lists one SELL away from the transactions prop: a SELL deleted, a SELL
\* edited into another SELL, a SELL added; as getTransactions returns them
SellChanges ==
    LET isSell(i) == hook_transactions[i].transaction_type = "SELL"
        without(i) == SubSeq(hook_transactions, 1, i - 1)
                        \o SubSeq(hook_transactions, i + 1, Len(hook_transactions))
        deleted == {without(i) : i \in {j \in DOMAIN hook_transactions : isSell(j)}}
        edited == {sortByDateDesc([hook_transactions EXCEPT ![i] = Row(hook_transactions[i].id, f)]) :
                      i \in {j \in DOMAIN hook_transactions : isSell(j)}, f \in SellForms}
        added == IF Len(hook_transactions) < MaxLen
                 THEN {sortByDateDesc(Append(hook_transactions, Row(MaxLen + 1, f))) :
                          f \in SellForms}
                 ELSE {}
    IN  (deleted \cup edited \cup added) \ {hook_transactions}

\* the transactions prop changes after a replay: buyTransactions, earliestDate
\* and loadBenchmarkData are rebuilt and the effect calls loadBenchmarkData(),
\* which finds the prices it cached today and replays with them
ReloadAfterSellChange(newTransactions) ==
    /\ bm_pc = "done"
    /\ pd_pc = "input"
    /\ bm_currentDate = Today + 1
    /\ ~bm_previous.changed
    /\ bm_previous' = [changed |-> TRUE, data |-> bm_result]
    /\ hook_transactions' = newTransactions
    /\ IF benchmarkBuyTransactions' = <<>>
       THEN /\ bm_pc' = "done"
            /\ bm_result' = <<>>
            /\ UNCHANGED <<bm_currentDate, phantomUnits, lastKnownPrice>>
       ELSE /\ bm_pc' = "replay"
            /\ bm_currentDate' = earliestDate'
            /\ phantomUnits' = Zero
            /\ lastKnownPrice' = Null
            /\ bm_result' = <<>>
    /\ UNCHANGED <<calcVars, storeVars, cooldownVars, incrementalVars, cacheVars, summaryVars, historyVars, priceByDate>>

NextBenchmarkSells ==
    \/ \E form \in BenchmarkForms : HookInput(form)
    \/ \E prices \in FetchedBenchmarkPrices : LoadBenchmarkData(TRUE, prices)
    \/ BenchmarkDay
    \/ \E newTransactions \in SellChanges : ReloadAfterSellChange(newTransactions)

SpecBenchmarkSells == Init /\ [][NextBenchmarkSells]_vars

-----------------------------------------------------------------------------
(* The dashboard's mutations and the caches of the two chart hooks.          *)
(* A transaction set is [version, length]: each successful mutation makes a  *)
(* new version; a series or a price map records the version it was built or  *)
(* fetched for.                                                              *)

MaxMutations == 2

MutationKinds == {"add", "update", "delete"}

\* the series buildPortfolioData makes of a transaction set
seriesOf(txs) == [of |-> txs.version]

\* the series buildBenchmarkSeries makes of a transaction set and a price map
benchmarkSeriesOf(txs, prices) == <<[of |-> txs.version, prices |-> prices.of]>>

\* getBenchmarkHistory(earliestDate, today) for a transaction set
benchmarkPricesOf(txs) == [of |-> txs.version]

\* a mutationFn (addTransaction, updateTransaction, deleteTransaction) succeeds
Mutate(kind) ==
    /\ mutation_pc = "idle"
    /\ db_transactions.version < MaxMutations
    /\ kind = "add" => db_transactions.length < MaxLen
    /\ kind # "add" => db_transactions.length > 0
    /\ db_transactions' =
          [version |-> db_transactions.version + 1,
           length |-> CASE kind = "add" -> db_transactions.length + 1
                        [] kind = "update" -> db_transactions.length
                        [] kind = "delete" -> db_transactions.length - 1]
    /\ mutation_pc' = "refetch"
    /\ servedStale' = FALSE
    /\ UNCHANGED <<calcVars, storeVars, cooldownVars, incrementalVars, summaryVars, hook_transactions, historyVars,
                   benchmarkVars,
                   query_transactions, render_pending, showBenchmark,
                   lastTransactionsLength, portfolio_cache, benchmark_cache,
                   history_data, benchmark_data, inflight>>

\* onSuccess: await Promise.all([refetchTransactions(), ...]) resolves
Refetch ==
    /\ mutation_pc = "refetch"
    /\ query_transactions' = db_transactions
    /\ render_pending' = TRUE
    /\ mutation_pc' = "clear"
    /\ UNCHANGED <<calcVars, storeVars, cooldownVars, incrementalVars, summaryVars, hook_transactions, historyVars,
                   benchmarkVars,
                   db_transactions, showBenchmark, lastTransactionsLength,
                   portfolio_cache, benchmark_cache, history_data, benchmark_data,
                   inflight, servedStale>>

\* onSuccess after the await: clearPortfolioCache()
HandlerClear ==
    /\ mutation_pc = "clear"
    /\ portfolio_cache' = Null
    /\ mutation_pc' = "idle"
    /\ UNCHANGED <<calcVars, storeVars, cooldownVars, incrementalVars, summaryVars, hook_transactions, historyVars,
                   benchmarkVars,
                   db_transactions, query_transactions, render_pending, showBenchmark,
                   lastTransactionsLength, benchmark_cache, history_data,
                   benchmark_data, inflight, servedStale>>

\* the chart's effect: transactions.length !== lastTransactionsLength
lengthChanged == query_transactions.length # lastTransactionsLength

\* loadBenchmarkData(forceRefresh) of the rendered prop, as <<cache, data>>
loadBenchmarkData(cache, forceRefresh) ==
    IF query_transactions.length = 0
    THEN <<cache, <<>>>>
    ELSE IF ~forceRefresh /\ cache # Null
         THEN <<cache, benchmarkSeriesOf(query_transactions, cache.prices)>>
         ELSE LET prices == benchmarkPricesOf(query_transactions)
              IN  <<[prices |-> prices], benchmarkSeriesOf(query_transactions, prices)>>

\* the benchmark cache holds prices fetched for an earlier transaction set
staleBenchmarkCache ==
    /\ query_transactions.length # 0
    /\ benchmark_cache # Null
    /\ benchmark_cache.prices # benchmarkPricesOf(query_transactions)

\* the chart renders with the refetched prop and its effects run in order:
\* usePortfolioHistory (loadPortfolioData()), useBenchmarkData
\* (loadBenchmarkData()), then the chart's own effect
Render ==
    /\ render_pending
    /\ render_pending' = FALSE
    /\ LET fromCache == query_transactions.length # 0 /\ portfolio_cache # Null
           fetches == query_transactions.length # 0 /\ portfolio_cache = Null
           hookLoad == IF showBenchmark
                       THEN loadBenchmarkData(benchmark_cache, FALSE)
                       ELSE <<benchmark_cache, <<>>>>
           chartLoad == IF lengthChanged /\ showBenchmark
                        THEN loadBenchmarkData(Null, TRUE)
                        ELSE IF lengthChanged THEN <<Null, hookLoad[2]>> ELSE hookLoad
       IN  /\ history_data' = IF query_transactions.length = 0
                              THEN seriesOf(query_transactions)
                              ELSE IF fromCache THEN portfolio_cache.data
                                   ELSE history_data
           /\ inflight' = inflight
                            \cup (IF fetches \/ (lengthChanged /\ query_transactions.length # 0)
                                  THEN {query_transactions} ELSE {})
           /\ portfolio_cache' = IF lengthChanged THEN Null ELSE portfolio_cache
           /\ benchmark_cache' = chartLoad[1]
           /\ benchmark_data' = chartLoad[2]
           /\ servedStale' =
                 \/ servedStale
                 \/ fromCache /\ portfolio_cache.data # seriesOf(query_transactions)
                 \/ showBenchmark /\ staleBenchmarkCache
    /\ lastTransactionsLength' = query_transactions.length
    /\ UNCHANGED <<calcVars, storeVars, cooldownVars, incrementalVars, summaryVars, hook_transactions, historyVars,
                   benchmarkVars,
                   db_transactions, query_transactions, mutation_pc, showBenchmark>>

\* fetchHistoricalPrices resolves for one loadPortfolioData call, which goes
\* on with the transactions of its closure: buildPortfolioData, saveCache,
\* setData
LoadFinish(txs) ==
    /\ txs \in inflight
    /\ inflight' = inflight \ {txs}
    /\ portfolio_cache' = [data |-> seriesOf(txs)]
    /\ history_data' = seriesOf(txs)
    /\ UNCHANGED <<calcVars, storeVars, cooldownVars, incrementalVars, summaryVars, hook_transactions, historyVars,
                   benchmarkVars,
                   db_transactions, query_transactions, mutation_pc, render_pending,
                   showBenchmark, lastTransactionsLength, benchmark_cache,
                   benchmark_data, servedStale>>

\* handleRefresh of the chart: clearCache(), clearBenchmarkCache(), refresh()
\* and, with the benchmark shown, refreshBenchmark()
HandleRefresh ==
    /\ ~render_pending
    /\ query_transactions.length # 0
    /\ query_transactions \notin inflight
    /\ portfolio_cache' = Null
    /\ inflight' = inflight \cup {query_transactions}
    /\ LET load == IF showBenchmark THEN loadBenchmarkData(Null, TRUE)
                   ELSE <<Null, benchmark_data>>
       IN  /\ benchmark_cache' = load[1]
           /\ benchmark_data' = load[2]
    /\ UNCHANGED <<calcVars, storeVars, cooldownVars, incrementalVars, summaryVars, hook_transactions, historyVars,
                   benchmarkVars,
                   db_transactions, query_transactions, mutation_pc, render_pending,
                   showBenchmark, lastTransactionsLength, history_data, servedStale>>

\* the benchmark toggle: setShowBenchmark, then the effect of useBenchmarkData
ToggleBenchmark ==
    /\ ~render_pending
    /\ showBenchmark' = ~showBenchmark
    /\ servedStale' = (servedStale \/ (~showBenchmark /\ staleBenchmarkCache))
    /\ LET load == IF ~showBenchmark THEN loadBenchmarkData(benchmark_cache, FALSE)
                   ELSE <<benchmark_cache, <<>>>>
       IN  /\ benchmark_cache' = load[1]
           /\ benchmark_data' = load[2]
    /\ UNCHANGED <<calcVars, storeVars, cooldownVars, incrementalVars, summaryVars, hook_transactions, historyVars,
                   benchmarkVars,
                   db_transactions, query_transactions, mutation_pc, render_pending,
                   lastTransactionsLength, portfolio_cache, history_data, inflight>>

NextCache ==
    \/ \E kind \in MutationKinds : Mutate(kind)
    \/ Refetch
    \/ HandlerClear
    \/ Render
    \/ \E txs \in inflight : LoadFinish(txs)
    \/ HandleRefresh
    \/ ToggleBenchmark

SpecCache == Init /\ [][NextCache]_vars

-----------------------------------------------------------------------------
(* calculatePortfolioSummary(holdings, closedPositions) *)

MaxHoldings == 2

MaxClosed == 2

\* holdings as updateHoldingWithLiveData leaves them, or without live data
SummaryHoldings ==
    { [total_invested_pln |-> R(i), current_value_pln |-> v, day_change_percent |-> c] :
        i \in {4000, 4920},
        v \in {Undefined, R(4400), R(3000)},
        c \in {Undefined, R(10), R(0 - 50)} }

SummaryClosedPositions ==
    { [realized_profit_pln |-> R(p)] : p \in {0 - 500, 0, 300} }

\* x || 0 of a number
orZero(x) == IF IsNaN(x) THEN Zero ELSE x

\* totalValuePLN after the loop over the holdings
summaryTotalValue(holdings) ==
    SumSeq([i \in DOMAIN holdings |->
              IF holdings[i].current_value_pln # Undefined
              THEN holdings[i].current_value_pln
              ELSE holdings[i].total_invested_pln])

\* totalInvestedPLN after the loop
summaryTotalInvested(holdings) ==
    SumSeq([i \in DOMAIN holdings |-> holdings[i].total_invested_pln])

\* previousDayValuePLN after the loop
summaryPreviousDayValue(holdings) ==
    SumSeq([i \in DOMAIN holdings |->
              IF holdings[i].current_value_pln # Undefined
              THEN IF holdings[i].day_change_percent # Undefined
                   THEN Div(holdings[i].current_value_pln,
                            Add(R(1), Div(holdings[i].day_change_percent, R(100))))
                   ELSE holdings[i].current_value_pln
              ELSE holdings[i].total_invested_pln])

summaryRealizedProfit_OpenHoldingsOnly(closedPositions) == Zero

\* closedPositions.reduce((sum, p) => sum + (p.realized_profit_pln || 0), 0)
summaryRealizedProfit(closedPositions) ==
    SumSeq([i \in DOMAIN closedPositions |-> orZero(closedPositions[i].realized_profit_pln)])

calculatePortfolioSummary(holdings, closedPositions) ==
    LET totalValuePLN == summaryTotalValue(holdings)
        totalInvestedPLN == summaryTotalInvested(holdings)
        previousDayValuePLN == summaryPreviousDayValue(holdings)
        unrealizedReturnPLN == Sub(totalValuePLN, totalInvestedPLN)
        dayChangePLN == Sub(totalValuePLN, previousDayValuePLN)
        realizedProfitPLN == summaryRealizedProfit(closedPositions)
        totalReturnPLN == Add(unrealizedReturnPLN, realizedProfitPLN)
    IN  [totalValuePLN |-> totalValuePLN,
         totalInvestedPLN |-> totalInvestedPLN,
         totalReturnPLN |-> totalReturnPLN,
         totalReturnPercent |-> IF Gt(totalInvestedPLN, Zero)
                                THEN Mul(Div(totalReturnPLN, totalInvestedPLN), R(100))
                                ELSE Zero,
         dayChangePLN |-> dayChangePLN,
         dayChangePercent |-> IF Gt(previousDayValuePLN, Zero)
                              THEN Mul(Div(dayChangePLN, previousDayValuePLN), R(100))
                              ELSE Zero,
         assetCount |-> Len(holdings),
         realizedProfitPLN |-> realizedProfitPLN,
         unrealizedReturnPLN |-> unrealizedReturnPLN]

SummaryAddHolding(holding) ==
    /\ summary_pc = "input"
    /\ Len(summary_holdings) < MaxHoldings
    /\ summary_holdings' = Append(summary_holdings, holding)
    /\ UNCHANGED <<summary_pc, summary_closed, summary_output>>
    /\ UNCHANGED <<calcVars, storeVars, cooldownVars, incrementalVars, hook_transactions, historyVars, benchmarkVars, cacheVars>>

SummaryAddClosed(position) ==
    /\ summary_pc = "input"
    /\ Len(summary_closed) < MaxClosed
    /\ summary_closed' = Append(summary_closed, position)
    /\ UNCHANGED <<summary_pc, summary_holdings, summary_output>>
    /\ UNCHANGED <<calcVars, storeVars, cooldownVars, incrementalVars, hook_transactions, historyVars, benchmarkVars, cacheVars>>

SummaryRun ==
    /\ summary_pc = "input"
    /\ summary_output' = calculatePortfolioSummary(summary_holdings, summary_closed)
    /\ summary_pc' = "done"
    /\ UNCHANGED <<summary_holdings, summary_closed>>
    /\ UNCHANGED <<calcVars, storeVars, cooldownVars, incrementalVars, hook_transactions, historyVars, benchmarkVars, cacheVars>>

NextSummary ==
    \/ \E holding \in SummaryHoldings : SummaryAddHolding(holding)
    \/ \E position \in SummaryClosedPositions : SummaryAddClosed(position)
    \/ SummaryRun

SpecSummary == Init /\ [][NextSummary]_vars

-----------------------------------------------------------------------------
(* updateHoldingWithLiveData, applied by the dashboard to every holding that *)
(* has a quote                                                               *)

\* the first quote of the input domain, and the same trades entered at price 0
\* (addTransaction stores formData.price_per_share as it is given)
LiveForms ==
    {f \in Forms : f.transaction_date = 1}
      \cup {[f EXCEPT !.price_per_share = Zero] :
               f \in {g \in Forms : g.transaction_date = 1 /\ g.transaction_type = "BUY"}}

\* quotesMap?.get(holding.ticker)
LiveQuotes ==
    {Undefined} \cup {[price |-> p, changePercent |-> R(1)] : p \in {Zero, R(110)}}

\* exchangeRatesMap?.get(holding.original_currency) || 1
LiveExchangeRates == {R(1), R(4)}

updateHoldingWithLiveData(holding, currentPrice, currentExchangeRate, dayChangePercent) ==
    LET currentValuePLN == Mul(Mul(holding.total_quantity, currentPrice), currentExchangeRate)
        totalReturnPLN == Sub(currentValuePLN, holding.total_invested_pln)
        totalReturnPercent == Mul(Div(totalReturnPLN, holding.total_invested_pln), R(100))
    IN  [ticker |-> holding.ticker,
         total_quantity |-> holding.total_quantity,
         avg_buy_price |-> holding.avg_buy_price,
         avg_exchange_rate |-> holding.avg_exchange_rate,
         total_invested_pln |-> holding.total_invested_pln,
         transactions |-> holding.transactions,
         current_price |-> currentPrice,
         current_exchange_rate |-> currentExchangeRate,
         current_value_pln |-> currentValuePLN,
         day_change_percent |-> dayChangePercent,
         total_return_pln |-> totalReturnPLN,
         total_return_percent |-> totalReturnPercent]

\* holdings.map((holding) => quote ? updateHoldingWithLiveData(...) : holding)
holdingsWithLiveData(holdings, quotesMap, exchangeRate) ==
    [i \in DOMAIN holdings |->
        LET quote == quotesMap[holdings[i].ticker]
        IN  IF quote # Undefined
            THEN updateHoldingWithLiveData(holdings[i], quote.price, exchangeRate,
                                           quote.changePercent)
            ELSE holdings[i]]

\* a render of the dashboard with the quotes and the rate of the moment
LiveUpdate(quotesMap, exchangeRate) ==
    /\ calc_pc = "done"
    /\ summary_holdings' = holdingsWithLiveData(calc_output, quotesMap, exchangeRate)
    /\ UNCHANGED <<summary_pc, summary_closed, summary_output>>
    /\ UNCHANGED <<calcVars, storeVars, cooldownVars, incrementalVars, hook_transactions, historyVars, benchmarkVars, cacheVars>>

NextLive ==
    \/ \E form \in LiveForms : CalcAppend(form)
    \/ CalcRun
    \/ \E quotesMap \in [Tickers -> LiveQuotes], exchangeRate \in LiveExchangeRates :
           LiveUpdate(quotesMap, exchangeRate)

SpecLive == Init /\ [][NextLive]_vars

-----------------------------------------------------------------------------
(* RefreshButton and useRefreshCooldown. Time is counted in seconds from the *)
(* stored timestamp; the interval callback runs once a second.               *)

REFRESH_COOLDOWN_SECONDS == 1800

MaxRefreshes == 2

canRefresh_Always(remaining) == TRUE

\* canRefresh: cooldownRemaining === 0
canRefresh(remaining) == remaining = 0

\* the useState initializer of cooldownRemaining
initialCooldown ==
    IF ~stored_last_refresh THEN 0
    ELSE LET elapsed == since_last_refresh
             left == REFRESH_COOLDOWN_SECONDS - elapsed
         IN  IF left > 0 THEN left ELSE 0

\* the callback of setCooldownRemaining inside the interval
countDown(prev) == IF prev <= 1 THEN 0 ELSE prev - 1

otherThanCooldown ==
    <<calcVars, storeVars, hook_transactions, historyVars, benchmarkVars, cacheVars,
      summaryVars, incrementalVars>>

\* a second passes; with the interval running its callback runs, and the
\* effect stops the interval once the countdown is no longer active
Second ==
    /\ stored_last_refresh
    /\ since_last_refresh <= REFRESH_COOLDOWN_SECONDS
    /\ since_last_refresh' = since_last_refresh + 1
    /\ IF rb_mounted /\ interval_on
       THEN /\ cooldownRemaining' = countDown(cooldownRemaining)
            /\ interval_on' = (cooldownRemaining' > 0)
       ELSE UNCHANGED <<cooldownRemaining, interval_on>>
    /\ UNCHANGED <<rb_mounted, stored_last_refresh, isRefreshing, refreshes, last_click>>
    /\ UNCHANGED otherThanCooldown

\* handleClick of RefreshButton: triggerRefresh(), then onRefresh()
Click ==
    /\ rb_mounted
    /\ (canRefresh(cooldownRemaining) /\ ~isRefreshing) => refreshes < MaxRefreshes
    /\ IF ~canRefresh(cooldownRemaining) \/ isRefreshing
       THEN /\ last_click' = "ignored"
            /\ UNCHANGED <<stored_last_refresh, since_last_refresh, cooldownRemaining,
                           interval_on, isRefreshing, refreshes>>
       ELSE /\ last_click' = "refreshed"
            /\ stored_last_refresh' = TRUE
            /\ since_last_refresh' = 0
            /\ cooldownRemaining' = REFRESH_COOLDOWN_SECONDS
            /\ interval_on' = TRUE
            /\ isRefreshing' = TRUE
            /\ refreshes' = refreshes + 1
    /\ UNCHANGED rb_mounted
    /\ UNCHANGED otherThanCooldown

\* onRefresh() settles and the parent takes isRefreshing back
RefreshDone ==
    /\ isRefreshing
    /\ isRefreshing' = FALSE
    /\ UNCHANGED <<rb_mounted, stored_last_refresh, since_last_refresh, cooldownRemaining,
                   interval_on, refreshes, last_click>>
    /\ UNCHANGED otherThanCooldown

\* the page is left: the effect's cleanup clears the interval, the state is gone
Unmount ==
    /\ rb_mounted
    /\ rb_mounted' = FALSE
    /\ cooldownRemaining' = 0
    /\ interval_on' = FALSE
    /\ isRefreshing' = FALSE
    /\ UNCHANGED <<stored_last_refresh, since_last_refresh, refreshes, last_click>>
    /\ UNCHANGED otherThanCooldown

\* the hook is initialized again from localStorage
Mount ==
    /\ ~rb_mounted
    /\ rb_mounted' = TRUE
    /\ cooldownRemaining' = initialCooldown
    /\ interval_on' = (initialCooldown > 0)
    /\ UNCHANGED <<stored_last_refresh, since_last_refresh, isRefreshing, refreshes,
                   last_click>>
    /\ UNCHANGED otherThanCooldown

NextCooldown ==
    \/ Second
    \/ Click
    \/ RefreshDone
    \/ Unmount
    \/ Mount

SpecCooldown == Init /\ [][NextCooldown]_vars

-----------------------------------------------------------------------------
(* Reference arithmetic for the properties: plain integers.  Every input    *)
(* quantity and price is a whole number and every rate a multiple of 1/10.  *)

RECURSIVE SumInt(_, _)
SumInt(f, S) ==
    IF S = {} THEN 0
    ELSE LET x == CHOOSE y \in S : TRUE IN f[x] + SumInt(f, S \ {x})

IsBuyOf(tx, t) == tx.ticker = t /\ tx.transaction_type = "BUY"

IsSellOf(tx, t) == tx.ticker = t /\ tx.transaction_type = "SELL"

RefBought(txs, t) ==
    SumInt([i \in DOMAIN txs |-> IF IsBuyOf(txs[i], t) THEN txs[i].quantity.n ELSE 0], DOMAIN txs)

RefSold(txs, t) ==
    SumInt([i \in DOMAIN txs |-> IF IsSellOf(txs[i], t) THEN txs[i].quantity.n ELSE 0], DOMAIN txs)

RefNet(txs, t) == RefBought(txs, t) - RefSold(txs, t)

\* sum of price * quantity over the BUYs of t
RefCostOriginal(txs, t) ==
    SumInt([i \in DOMAIN txs |->
              IF IsBuyOf(txs[i], t) THEN txs[i].price_per_share.n * txs[i].quantity.n ELSE 0],
           DOMAIN txs)

\* ten times a rate, a whole number
Rate10(r) == r.n * (10 \div r.d)

\* ten times the sum of price * quantity * rate over the BUYs of t
RefCostPLN10(txs, t) ==
    SumInt([i \in DOMAIN txs |->
              IF IsBuyOf(txs[i], t)
              THEN txs[i].price_per_share.n * txs[i].quantity.n * Rate10(txs[i].exchange_rate_to_pln)
              ELSE 0],
           DOMAIN txs)

\* ten times the sum of rate * quantity over the BUYs of t
RefRateQty10(txs, t) ==
    SumInt([i \in DOMAIN txs |->
              IF IsBuyOf(txs[i], t)
              THEN txs[i].quantity.n * Rate10(txs[i].exchange_rate_to_pln)
              ELSE 0],
           DOMAIN txs)

HoldingsOf(holdings, t) == {i \in DOMAIN holdings : holdings[i].ticker = t}

RemoveAt(s, i) == SubSeq(s, 1, i - 1) \o SubSeq(s, i + 1, Len(s))

SwapAdjacent(s, i) == [j \in DOMAIN s |-> IF j = i THEN s[i + 1] ELSE IF j = i + 1 THEN s[i] ELSE s[j]]

-----------------------------------------------------------------------------
(* Properties of calculateHoldings, under SpecHoldings *)

\* C1: calculateHoldings returns exactly one holding for each ticker whose BUY
\* quantities minus SELL quantities is > 0, with total_quantity equal to that
\* difference, and no holding for a ticker whose net quantity is <= 0.
C1_OneHoldingPerPositiveNet ==
    calc_pc = "done" =>
        \A t \in Tickers :
            LET net == RefNet(calc_input, t)
                hs == HoldingsOf(calc_output, t)
            IN  IF net > 0
                THEN /\ Cardinality(hs) = 1
                     /\ \A i \in hs : calc_output[i].total_quantity = R(net)
                ELSE hs = {}

\* a list out of date order with one ticker held and the other bought and
\* fully sold
C1_Witness ==
    /\ calc_pc = "done"
    /\ \E t, u \in Tickers :
        /\ RefNet(calc_input, t) > 0
        /\ RefNet(calc_input, u) = 0 /\ RefBought(calc_input, u) > 0
    /\ \E i \in 1..(Len(calc_input) - 1) :
        calc_input[i].transaction_date > calc_input[i + 1].transaction_date

ScenarioBuys ==
    << [ticker |-> "AAPL", transaction_type |-> "BUY", quantity |-> R(10),
        price_per_share |-> R(100), exchange_rate_to_pln |-> R(4), transaction_date |-> 1],
       [ticker |-> "AAPL", transaction_type |-> "BUY", quantity |-> R(5),
        price_per_share |-> R(120), exchange_rate_to_pln |-> Norm(41, 10), transaction_date |-> 2] >>

ScenarioSell ==
    [ticker |-> "AAPL", transaction_type |-> "SELL", quantity |-> R(5),
     price_per_share |-> R(150), exchange_rate_to_pln |-> Norm(42, 10), transaction_date |-> 3]

IsScenario(txs) ==
    /\ Len(txs) = 3
    /\ \A i \in 1..2 : txs[i] = Row(i, ScenarioBuys[i])
    /\ txs[3] = Row(3, ScenarioSell)

\* C2: total_invested_pln is the sum of price*qty*rate over the BUYs scaled by
\* current quantity / total bought quantity; a SELL of exactly half of the
\* position halves the cost basis; BUY 10@100 rate 4.0, BUY 5@120 rate 4.1,
\* SELL 5 leaves quantity 10 and cost basis 6460*10/15.
C2_ProportionalCostBasis ==
    calc_pc = "done" =>
        /\ \A i \in DOMAIN calc_output :
            LET t == calc_output[i].ticker
            IN  calc_output[i].total_invested_pln =
                    Norm(RefCostPLN10(calc_input, t) * RefNet(calc_input, t),
                         10 * RefBought(calc_input, t))
        /\ \A k \in DOMAIN calc_input :
            LET t == calc_input[k].ticker
                before == calculateHoldings(RemoveAt(calc_input, k))
            IN  (/\ calc_input[k].transaction_type = "SELL"
                 /\ RefNet(RemoveAt(calc_input, k), t) = 2 * calc_input[k].quantity.n)
                => /\ HoldingsOf(before, t) # {}
                   /\ HoldingsOf(calc_output, t) # {}
                   /\ \A i \in HoldingsOf(calc_output, t), j \in HoldingsOf(before, t) :
                        Add(calc_output[i].total_invested_pln, calc_output[i].total_invested_pln)
                            = before[j].total_invested_pln
        /\ IsScenario(calc_input) =>
            /\ Len(calc_output) = 1
            /\ calc_output[1].total_quantity = R(10)
            /\ calc_output[1].total_invested_pln = Norm(6460 * 10, 15)

\* the scenario of the claim has been aggregated
C2_Witness ==
    /\ calc_pc = "done"
    /\ IsScenario(calc_input)
    /\ calc_output # <<>>

\* C3: avg_buy_price is sum(pi*qi)/sum(qi) over the ticker's BUYs, whatever the
\* order of the list, and the ticker's SELLs do not change it.
C3_WeightedAverageBuyPrice ==
    calc_pc = "done" =>
        /\ \A i \in DOMAIN calc_output :
            LET t == calc_output[i].ticker
            IN  /\ calc_output[i].avg_buy_price =
                        Norm(RefCostOriginal(calc_input, t), RefBought(calc_input, t))
                /\ LET buysOnly == calculateHoldings(buyTransactions(calc_input))
                   IN  \E j \in HoldingsOf(buysOnly, t) :
                          buysOnly[j].avg_buy_price = calc_output[i].avg_buy_price
        /\ \A k \in 1..(Len(calc_input) - 1) :
            LET swapped == calculateHoldings(SwapAdjacent(calc_input, k))
            IN  \A t \in Tickers :
                  /\ (HoldingsOf(swapped, t) = {}) = (HoldingsOf(calc_output, t) = {})
                  /\ \A i \in HoldingsOf(calc_output, t), j \in HoldingsOf(swapped, t) :
                        swapped[j].avg_buy_price = calc_output[i].avg_buy_price

\* a ticker held after two BUYs at different prices and quantities, listed
\* newest first, and a SELL
C3_Witness ==
    /\ calc_pc = "done"
    /\ \E t \in Tickers :
        /\ HoldingsOf(calc_output, t) # {}
        /\ RefSold(calc_input, t) > 0
        /\ \E i, j \in DOMAIN calc_input :
            /\ i < j
            /\ IsBuyOf(calc_input[i], t) /\ IsBuyOf(calc_input[j], t)
            /\ calc_input[i].transaction_date > calc_input[j].transaction_date
            /\ calc_input[i].quantity # calc_input[j].quantity

-----------------------------------------------------------------------------
(* Properties of the server actions *)

\* the holdings the dashboard derives from the stored transactions
currentHoldings == calculateHoldings(transactions)

HasHolding(t) == HoldingsOf(currentHoldings, t) # {}

SumHoldingsQuantity ==
    SumSeq([i \in DOMAIN currentHoldings |-> currentHoldings[i].total_quantity])

SumClosedQuantity(closed) ==
    SumSeq([i \in DOMAIN closed |-> closed[i].quantity_sold])

RefAllBought == SumInt([t \in Tickers |-> RefBought(transactions, t)], Tickers)

RefOpenBought ==
    SumInt([t \in Tickers |-> IF HasHolding(t) THEN RefBought(transactions, t) ELSE 0], Tickers)

RefOpenSold ==
    SumInt([t \in Tickers |-> IF HasHolding(t) THEN RefSold(transactions, t) ELSE 0], Tickers)

\* no stored SELL was for more than the quantity held when it was inserted
NoOversell ==
    \A k \in DOMAIN transactions :
        transactions[k].transaction_type = "SELL" =>
            transactions[k].quantity.n
                <= RefNet(SubSeq(transactions, 1, k - 1), transactions[k].ticker)

IsAddCall(op) == op.op = "addTransaction"

IsSellInsert(op) ==
    /\ op.op = "addTransaction"
    /\ op.form.transaction_type = "SELL"
    /\ op.result = "ok"

ClosedWithId(id) == {i \in DOMAIN closed_positions : closed_positions[i].id = id}

C6_ClosedPositionSnapshot ==
    [][ (Len(closed_positions') = Len(closed_positions) + 1) =>
          LET c == closed_positions'[Len(closed_positions')]
              f == lastOp'.form
              t == f.ticker
          IN  /\ c.avg_buy_price_original =
                    Norm(RefCostOriginal(transactions, t), RefBought(transactions, t))
              /\ c.avg_buy_exchange_rate =
                    Norm(RefRateQty10(transactions, t), 10 * RefBought(transactions, t))
              /\ c.sell_price = f.price_per_share
              /\ c.sell_exchange_rate = f.exchange_rate_to_pln
              /\ c.realized_profit_pln =
                    Sub(Mul(Mul(f.quantity, f.price_per_share), f.exchange_rate_to_pln),
                        Mul(Mul(f.quantity, c.avg_buy_price_original), c.avg_buy_exchange_rate))
      ]_vars

\* the last call sold part of a ticker bought twice at different prices and
\* rates, and its closed position was written
C6_Witness ==
    /\ IsSellInsert(lastOp)
    /\ ClosedWithId(calls) # {}
    /\ \E i, j \in DOMAIN transactions :
        /\ IsBuyOf(transactions[i], lastOp.form.ticker)
        /\ IsBuyOf(transactions[j], lastOp.form.ticker)
        /\ transactions[i].price_per_share # transactions[j].price_per_share
        /\ transactions[i].quantity # transactions[j].quantity

\* C7: an addTransaction call leaves every closed position that already exists
\* unchanged in all its fields.
C7_ClosedPositionsFixed ==
    [][ (calls' = calls + 1 /\ IsAddCall(lastOp')) =>
          \A i \in DOMAIN closed_positions :
              /\ i \in DOMAIN closed_positions'
              /\ closed_positions'[i] = closed_positions[i]
      ]_vars

\* a SELL of the same ticker was added after a closed position existed
C7_Witness ==
    /\ IsSellInsert(lastOp)
    /\ ClosedWithId(calls) # {}
    /\ \E i \in DOMAIN closed_positions :
        /\ closed_positions[i].id < calls
        /\ closed_positions[i].ticker = lastOp.form.ticker

-----------------------------------------------------------------------------
(* Properties of the daily replay (specification SpecHistory).  The         *)
(* reference replays each ticker on its own, over its transactions dated   *)
(* on or before a day, instead of advancing one index through the days.    *)

MaxOf(S) == CHOOSE x \in S : \A y \in S : y <= x

\* the transactions of a ticker dated on or before a day, oldest first
RefTickerTransactions(ticker, day) ==
    SelectSeq(sortByDateAsc(hook_transactions),
              LAMBDA tx : tx.ticker = ticker /\ tx.transaction_date <= day)

\* quantity and cost basis of one ticker after its transactions s
RECURSIVE RefPosition(_)
RefPosition(s) ==
    IF s = <<>> THEN [quantity |-> Zero, costBasis |-> Zero]
    ELSE LET before == RefPosition(Front(s))
             tx == Last(s)
         IN  IF tx.transaction_type = "BUY"
             THEN [quantity |-> Add(before.quantity, tx.quantity),
                   costBasis |->
                      Add(before.costBasis,
                          Mul(Mul(tx.quantity, tx.price_per_share),
                              tx.exchange_rate_to_pln))]
             ELSE [quantity |-> Sub(before.quantity, tx.quantity),
                   costBasis |->
                      Sub(before.costBasis,
                          Mul(before.costBasis, Div(tx.quantity, before.quantity)))]

RefHeldOn(ticker, day) ==
    ~Le(RefPosition(RefTickerTransactions(ticker, day)).quantity, Zero)

\* the sum of the cost bases of the tickers held at the end of a day
RefTotalCostBasis(day) ==
    LET held == {t \in Tickers : RefHeldOn(t, day)}
    IN  SumNumbers([t \in held |-> RefPosition(RefTickerTransactions(t, day)).costBasis],
                   held)

HasPointOn(day) == \E i \in DOMAIN pd_result : pd_result[i].date = day

\* C8: the points of buildPortfolioData are in strictly ascending date order
\* (so at most one per day), each dated from the earliest transaction's day
\* to today, and a replayed day of that range has a point if and only if the
\* sum of the cost bases of the tickers held that day is > 0 (a sum that is
\* NaN, after a SELL of a ticker with quantity 0, is not > 0).
C8_OnePointPerDayWithCostBasis ==
    /\ (pd_pc = "done" /\ hook_transactions = <<>>) => pd_result = <<>>
    /\ (pd_pc \in {"replay", "done"} /\ hook_transactions # <<>>) =>
          /\ \A i \in DOMAIN pd_result : \A j \in DOMAIN pd_result :
                i < j => pd_result[i].date < pd_result[j].date
          /\ \A i \in DOMAIN pd_result :
                /\ getEarliestTransactionDate <= pd_result[i].date
                /\ pd_result[i].date <= Today
          /\ \A day \in getEarliestTransactionDate..(pd_currentDate - 1) :
                HasPointOn(day) <=> Gt(RefTotalCostBasis(day), Zero)
          /\ pd_pc = "done" => pd_currentDate = Today + 1

\* the replay has ended with a point on the first day, none on a later day on
\* which everything was sold, and a point again after a new BUY
C8_Witness ==
    /\ pd_pc = "done"
    /\ \E d1 \in Days, d2 \in Days, d3 \in Days :
          /\ d1 < d2 /\ d2 < d3
          /\ HasPointOn(d1) /\ ~HasPointOn(d2) /\ HasPointOn(d3)
          /\ \E t \in Tickers : RefHeldOn(t, d1) /\ ~RefHeldOn(t, d2)

\* the price the sentence of C9 gives a ticker on a day: the day's own entry
\* of the price map, else the entry of the most recent earlier day that has one
PriceMapForwardFilled(ticker, day) ==
    LET known == {e \in 1..day : priceHistory[ticker][e] # Undefined}
    IN  IF known = {} THEN Undefined ELSE priceHistory[ticker][MaxOf(known)]

\* the day replayed last, when it produced a point
LastDayHasPoint ==
    /\ pd_pc \in {"replay", "done"}
    /\ pd_result # <<>>
    /\ Last(pd_result).date = pd_currentDate - 1

\* C9: on every day of the series, a held ticker whose price map has no entry
\* for the day is valued at the price of the most recent earlier date present
\* in its price map: the day's total market value is the sum over the held
\* tickers of that price x quantity x average rate (the cost basis when the
\* map has no entry on or before the day).
C9_ForwardFilledFromPriceMap ==
    LastDayHasPoint =>
       LET held == {t \in Tickers : isHeld(pd_holdings[t])}
           day == pd_currentDate - 1
       IN  Last(pd_result).totalMarketValue =
              SumNumbers([t \in held |->
                            marketValueOf(pd_holdings[t], PriceMapForwardFilled(t, day))],
                         held)

\* what the replay does instead: it forward-fills from the most recent day on
\* which the ticker was held and had an entry; entries of days on which the
\* ticker was not held are never remembered
PriceLastSeenWhileHeld(ticker, day) ==
    LET known == {e \in getEarliestTransactionDate..day :
                    priceHistory[ticker][e] # Undefined /\ RefHeldOn(ticker, e)}
    IN  IF known = {} THEN Undefined ELSE priceHistory[ticker][MaxOf(known)]

ForwardFilledWhileHeld ==
    LastDayHasPoint =>
       LET held == {t \in Tickers : isHeld(pd_holdings[t])}
           day == pd_currentDate - 1
       IN  Last(pd_result).totalMarketValue =
              SumNumbers([t \in held |->
                            marketValueOf(pd_holdings[t], PriceLastSeenWhileHeld(t, day))],
                         held)

-----------------------------------------------------------------------------
(* Properties of the benchmark simulator (specification SpecBenchmark) *)

\* the benchmark price of a day: its own, else the last one known before it
BenchmarkPriceFilled(day) ==
    LET known == {e \in 1..day : priceByDate[e] # Undefined}
    IN  IF known = {} THEN Undefined ELSE priceByDate[MaxOf(known)]

\* the BUYs dated on or before a day, as indices of benchmarkBuyTransactions
BuysUpTo(day) ==
    {i \in DOMAIN benchmarkBuyTransactions :
        benchmarkBuyTransactions[i].transaction_date <= day}

PricedBuysUpTo(day) ==
    {i \in BuysUpTo(day) :
        BenchmarkPriceFilled(benchmarkBuyTransactions[i].transaction_date) # Undefined}

\* the units of the BUYs whose own day has a benchmark price
RefPricedUnits(day) ==
    SumNumbers([i \in PricedBuysUpTo(day) |->
                  Div(amountPLN(benchmarkBuyTransactions[i]),
                      BenchmarkPriceFilled(benchmarkBuyTransactions[i].transaction_date))],
               PricedBuysUpTo(day))

\* the day replayed last, when a benchmark price is known on it
LastDayHasBenchmarkPrice ==
    /\ bm_pc \in {"replay", "done"}
    /\ bm_currentDate > earliestDate
    /\ earliestDate # NoDate
    /\ lastKnownPrice # Null

\* C10: on every replayed day that has a benchmark price, the phantom units
\* are the sum over all BUYs dated on or before the day of amount / benchmark
\* price of the BUY's own day (exact or forward-filled), and the point of the
\* day is worth units x the day's forward-filled price.  A BUY on a day for
\* which no benchmark price is known yet has no divisor in that sum; whatever
\* price stands in for it, it adds more than zero units.
C10_PhantomUnitsOfAllBuys ==
    LastDayHasBenchmarkPrice =>
       LET day == bm_currentDate - 1
       IN  /\ IF PricedBuysUpTo(day) = BuysUpTo(day)
              THEN phantomUnits = RefPricedUnits(day)
              ELSE Gt(phantomUnits, RefPricedUnits(day))
           /\ (bm_result # <<>> /\ Last(bm_result).date = day) =>
                 Last(bm_result).benchmarkValue =
                    Mul(phantomUnits, BenchmarkPriceFilled(day))

\* what the simulator does instead: a BUY on a day with no benchmark price
\* known yet is dropped, then and on every later day
PhantomUnitsOfPricedBuys ==
    LastDayHasBenchmarkPrice =>
       LET day == bm_currentDate - 1
       IN  /\ phantomUnits = RefPricedUnits(day)
           /\ (bm_result # <<>> /\ Last(bm_result).date = day) =>
                 Last(bm_result).benchmarkValue =
                    Mul(phantomUnits, BenchmarkPriceFilled(day))

\* what one step of the benchmark hook does with SELLs around
SellsIgnoredStep ==
    LET replayedDay == bm_pc = "replay" /\ bm_currentDate' = bm_currentDate + 1
        pointOfDay == /\ bm_result' # <<>>
                      /\ Last(bm_result').date = bm_currentDate
                      /\ Len(bm_result') = Len(bm_result) + 1
        servedAfterChange == bm_pc' = "done" /\ bm_previous'.changed
    IN  /\ replayedDay => ~Gt(phantomUnits, phantomUnits')
        /\ (replayedDay /\ Gt(phantomUnits', Zero)) => pointOfDay
        /\ servedAfterChange => bm_result' = bm_previous'.data

\* C11: the benchmark ignores SELLs: when the transactions change by a SELL
\* (added, removed or edited) the series replayed afterwards is the series
\* served before; from one replayed day to the next the phantom units never
\* decrease; and a day that ends with phantom units > 0 has its point.
C11_BenchmarkIgnoresSells == [][SellsIgnoredStep]_vars

\* a series of two points or more was served, a SELL changed, and the replay
\* after the change has ended
C11_Witness ==
    /\ bm_pc = "done"
    /\ bm_previous.changed
    /\ Len(bm_previous.data) >= 2
    /\ bm_currentDate = Today + 1
    /\ \E i \in DOMAIN hook_transactions : hook_transactions[i].transaction_type = "SELL"

\* the chart is at rest: no handler, render or price fetch is outstanding
CacheQuiescent == mutation_pc = "idle" /\ ~render_pending /\ inflight = {}

\* C12: after a successful add, edit or delete no series is served out of a
\* cache that still holds what was written for the earlier transaction set
\* (both caches are cleared first), and once the completion handler has run
\* and the chart is at rest the displayed daily series is the one of the new
\* transaction set.
C12_CachesClearedBeforeServing ==
    /\ ~servedStale
    /\ (CacheQuiescent /\ db_transactions.version > 0) =>
          history_data = seriesOf(db_transactions)

\* the same with the handler's clearPortfolioCache() ahead of the render:
\* an edit with the benchmark shown
C12_EditKeepsBenchmarkCache ==
    ~(/\ CacheQuiescent
      /\ db_transactions.version > 0
      /\ portfolio_cache # Null
      /\ portfolio_cache.data = seriesOf(db_transactions)
      /\ history_data = seriesOf(db_transactions)
      /\ showBenchmark
      /\ staleBenchmarkCache
      /\ benchmark_data = benchmarkSeriesOf(db_transactions, benchmark_cache.prices))

\* a price fetch started before the mutation answers last
C12_LateFetchServesOldSeries ==
    ~(/\ CacheQuiescent
      /\ db_transactions.version > 0
      /\ ~servedStale
      /\ history_data # seriesOf(db_transactions))

\* the rows of the four tables
AllTables == <<transactions, closed_positions, portfolio_snapshots, cash_operations>>

\* the rows of the four tables that are not the user's
RowsOfOthers(tables, userId) ==
    [k \in DOMAIN tables |-> SelectSeq(tables[k], LAMBDA r : r.user_id # userId)]

\* what one server action call does for its caller
AuthorizedCall ==
    LET caller == lastOp'.user
    IN  IF caller = NoUser
        THEN /\ lastOp'.result = "Not authenticated"
             /\ AllTables' = AllTables
        ELSE /\ lastOp'.result # "Not authenticated"
             /\ RowsOfOthers(AllTables', caller) = RowsOfOthers(AllTables, caller)
             /\ lastOp'.op \in {"getTransactions", "getClosedPositions", "getPortfolioSnapshots"} =>
                   \A i \in DOMAIN lastOp'.data : lastOp'.data[i].user_id = caller
             /\ (lastOp'.op = "addTransaction" /\ closed_positions' # closed_positions) =>
                   \E i \in DOMAIN transactions :
                       /\ transactions[i].user_id = caller
                       /\ transactions[i].ticker = lastOp'.form.ticker
                       /\ transactions[i].transaction_type = "BUY"

\* C13: a server action called with no authenticated user is rejected with
\* "Not authenticated" and leaves every table as it was; called with a user it
\* returns only rows of that user and changes or removes no row of another
\* user.
C13_ActionsAuthorized == [][calls' = calls + 1 => AuthorizedCall]_vars

\* user u1 has deleted everything they had while u2 keeps rows in
\* transactions and cash_operations
C13_Witness ==
    /\ lastOp.op = "deleteAllTransactions"
    /\ lastOp.user = "u1"
    /\ lastOp.result = "ok"
    /\ \E i \in DOMAIN transactions : transactions[i].user_id = "u2"
    /\ cash_operations = <<[id |-> 2, user_id |-> "u2"]>>

RECURSIVE SumInts(_)
SumInts(s) == IF s = <<>> THEN 0 ELSE s[1] + SumInts(Tail(s))

\* a number of the inputs, which are all whole, as an integer
Whole(x) == x.n

\* current value of a holding, the cost basis standing in where a holding
\* has no live data
RefCurrentValue(h) ==
    IF h.current_value_pln = Undefined THEN Whole(h.total_invested_pln)
    ELSE Whole(h.current_value_pln)

\* C15: totalReturnPLN is the sum of the holdings' current values minus the
\* sum of their cost bases, plus the sum of realized_profit_pln over all
\* closed positions.
C15_TotalReturnAddsRealized ==
    summary_pc = "done" =>
        summary_output.totalReturnPLN =
            R(SumInts([i \in DOMAIN summary_holdings |-> RefCurrentValue(summary_holdings[i])])
              - SumInts([i \in DOMAIN summary_holdings |->
                           Whole(summary_holdings[i].total_invested_pln)])
              + SumInts([i \in DOMAIN summary_closed |->
                           Whole(summary_closed[i].realized_profit_pln)]))

\* a summary of two holdings, one of them without live data, one below its
\* cost, and two closed positions, a loss and a gain
C15_Witness ==
    /\ summary_pc = "done"
    /\ Len(summary_holdings) = 2
    /\ summary_holdings[1].current_value_pln = Undefined
    /\ summary_holdings[2].current_value_pln = R(3000)
    /\ summary_closed = <<[realized_profit_pln |-> R(0 - 500)], [realized_profit_pln |-> R(300)]>>
    /\ summary_output.totalReturnPLN # summary_output.unrealizedReturnPLN

\* what one step does to the refresh cooldown
CooldownStep ==
    /\ refreshes' # refreshes =>
          /\ cooldownRemaining = 0
          /\ cooldownRemaining' = REFRESH_COOLDOWN_SECONDS
    /\ (rb_mounted' /\ stored_last_refresh') =>
          /\ cooldownRemaining' + since_last_refresh' >= REFRESH_COOLDOWN_SECONDS
          /\ cooldownRemaining' # 0 =>
                cooldownRemaining' + since_last_refresh' = REFRESH_COOLDOWN_SECONDS
    /\ (rb_mounted /\ rb_mounted' /\ since_last_refresh' = since_last_refresh + 1
            /\ cooldownRemaining > 0) =>
          cooldownRemaining' = cooldownRemaining - 1

\* C16: onRefresh is invoked only by a click made while canRefresh is true,
\* and that click sets the countdown to 1800 and canRefresh to false; the
\* countdown goes down by one each second, so canRefresh is true again when
\* 1800 seconds have passed and not before; a hook initialized again shows
\* the remaining time computed from the stored timestamp.
C16_RefreshCooldown == [][CooldownStep]_vars

\* a second refresh was made, which the countdown of the first allowed only
\* after it had run out; a click during the new countdown was ignored
C16_Witness ==
    /\ refreshes = 2
    /\ last_click = "ignored"
    /\ rb_mounted
    /\ cooldownRemaining = REFRESH_COOLDOWN_SECONDS - 1

\* the groups of the list given to calculateHoldings that hold no BUY
GroupsWithoutBuy ==
    {g \in {groupByTicker(calc_input)[i] : i \in DOMAIN groupByTicker(calc_input)} :
        buyTransactions(g.transactions) = <<>>}

\* C17: for a ticker whose group holds no BUY, calculateHoldings divides by
\* nothing that is zero (it performs no division for it at all) and the
\* ticker is not in the result.
C17_NoBuyNoDivision ==
    calc_pc = "done" =>
        \A g \in GroupsWithoutBuy :
            /\ \A k \in DOMAIN divisorsOf(g.transactions) : divisorsOf(g.transactions)[k] # Zero
            /\ divisorsOf(g.transactions) = <<>>
            /\ \A i \in DOMAIN calc_output : calc_output[i].ticker # g.ticker

\* a list with SELLs only of one ticker and a held position of the other
C17_Witness ==
    /\ calc_pc = "done"
    /\ GroupsWithoutBuy # {}
    /\ Len(calc_output) = 1
    /\ Len(calc_input) = MaxLen

-----------------------------------------------------------------------------
(* Properties of the server actions around SELLs without a holding, deleted  *)
(* SELLs and edited transactions (specification Spec)                        *)

\* the stored rows of a user
RowsOf(userId) == SelectSeq(transactions, LAMBDA r : r.user_id = userId)

\* an authenticated addTransaction of a SELL whose ticker has no holding
\* among the caller's stored rows, or whose fetch of those rows failed
SellWithoutHolding(op) ==
    /\ op.op = "addTransaction"
    /\ op.user # NoUser
    /\ op.form.transaction_type = "SELL"
    /\ \/ op.fetchError
       \/ RefNet(RowsOf(op.user), op.form.ticker) <= 0

\* C18: addTransaction of a SELL for a ticker without a holding among the
\* stored transactions, or whose stored transactions cannot be fetched,
\* writes no closed-position record and goes on to insert the SELL: the call
\* ends "ok" with the SELL appended to the stored transactions, and the one
\* way it can fail is the insert of the transaction itself.
C18_SellWithoutHoldingInserted ==
    [][(calls' = calls + 1 /\ SellWithoutHolding(lastOp')) =>
          /\ closed_positions' = closed_positions
          /\ lastOp'.result \in {"ok", "Failed to add transaction"}
          /\ IF lastOp'.result = "ok"
             THEN transactions' =
                    Append(transactions, StoredRow(calls', lastOp'.user, lastOp'.form))
             ELSE transactions' = transactions
      ]_vars

\* a SELL of a ticker never bought was inserted next to a held position of
\* the other ticker, and there is no closed position
C18_Witness ==
    /\ IsSellInsert(lastOp)
    /\ ~lastOp.fetchError
    /\ closed_positions = <<>>
    /\ Last(transactions).transaction_type = "SELL"
    /\ Last(transactions).id = calls
    /\ RefBought(transactions, lastOp.form.ticker) = 0
    /\ \E t \in Tickers : RefNet(transactions, t) > 0

\* the stored row with an id, if it is a SELL of the user
StoredSell(id, userId) ==
    {i \in DOMAIN transactions : /\ transactions[i].id = id
                                 /\ transactions[i].user_id = userId
                                 /\ transactions[i].transaction_type = "SELL"}

\* C19: when deleteTransaction succeeds on a stored SELL, the closed position
\* created at the insertion of that SELL exists no longer.
C19_DeletedSellLeavesNoClosedPosition ==
    [][(/\ calls' = calls + 1
        /\ lastOp'.op = "deleteTransaction"
        /\ lastOp'.result = "ok"
        /\ StoredSell(lastOp'.id, lastOp'.user) # {})
          => \A i \in DOMAIN closed_positions' : closed_positions'[i].id # lastOp'.id
      ]_vars

\* the realized profit of a closed position computed from given stored rows:
\* the SELL it was created for, against the holding made of the rows of the
\* ticker stored before that SELL
RecomputedProfit(c, rows) ==
    LET sells == SelectSeq(rows, LAMBDA r : r.id = c.id /\ r.transaction_type = "SELL")
        prior == SelectSeq(rows, LAMBDA r : /\ r.user_id = c.user_id
                                            /\ r.id < c.id
                                            /\ r.ticker = c.ticker)
        holding == findHolding(calculateHoldings(prior), c.ticker)
    IN  IF sells = <<>> \/ holding = Null THEN Null
        ELSE calculateRealizedProfit(holding.avg_buy_price, holding.avg_exchange_rate,
                                     sells[1].price_per_share, sells[1].exchange_rate_to_pln,
                                     sells[1].quantity)

\* C20: when updateTransaction has changed a transaction, no closed position
\* whose realized profit comes out differently from the edited transactions
\* is left as it was: it is recomputed or removed.
C20_EditRecomputesClosedPositions ==
    [][(/\ calls' = calls + 1
        /\ lastOp'.op = "updateTransaction"
        /\ lastOp'.result = "ok")
          => \A i \in DOMAIN closed_positions :
                RecomputedProfit(closed_positions[i], transactions')
                    # RecomputedProfit(closed_positions[i], transactions)
                => \A j \in DOMAIN closed_positions' :
                      closed_positions'[j] # closed_positions[i]
      ]_vars

-----------------------------------------------------------------------------
(* Properties of the multi-request server actions when one request fails     *)
(* (specification SpecMultiStep)                                             *)

\* a call that made its first store request and failed at the request on
\* table transactions
FailedOnTransactions(op) ==
    \/ /\ op.op = "addTransaction"
       /\ op.form.transaction_type = "SELL"
       /\ op.result = "Failed to add transaction"
    \/ /\ op.op = "deleteAllTransactionsForTicker"
       /\ op.result = "Failed to delete transactions"
    \/ /\ op.op = "deleteAllTransactions"
       /\ op.result = "Failed to delete all transactions"

NoPartialCommitStep ==
    LET op == lastOp'
    IN  (calls' = calls + 1 /\ FailedOnTransactions(op)) =>
           /\ transactions' = transactions
           /\ IF op.op = "addTransaction"
              THEN \A i \in DOMAIN closed_positions' : closed_positions'[i].id # calls'
              ELSE \A i \in DOMAIN closed_positions :
                      (/\ closed_positions[i].user_id = op.user
                       /\ op.op = "deleteAllTransactionsForTicker" =>
                              closed_positions[i].ticker = op.ticker)
                      => \E j \in DOMAIN closed_positions' :
                            closed_positions'[j] = closed_positions[i]

\* C21: no multi-step store operation leaves only one side done when a step
\* fails: an addTransaction of a SELL that fails to insert the transaction
\* leaves no closed position of that call, and a deleteAllTransactionsForTicker
\* or deleteAllTransactions that fails to delete the transactions leaves the
\* closed positions it was aimed at in the store.
C21_NoPartialCommit == [][NoPartialCommitStep]_vars

\* the part of C21 about addTransaction alone
C21_FailedSellLeavesNoClosedPosition ==
    [][(/\ calls' = calls + 1
        /\ lastOp'.op = "addTransaction"
        /\ lastOp'.result = "Failed to add transaction")
          => closed_positions' = closed_positions]_vars

\* the part of C21 about deleteAllTransactionsForTicker alone
C21_FailedTickerDeleteKeepsClosed ==
    [][(/\ calls' = calls + 1
        /\ lastOp'.op = "deleteAllTransactionsForTicker"
        /\ lastOp'.result = "Failed to delete transactions")
          => closed_positions' = closed_positions]_vars

\* the part of C21 about deleteAllTransactions alone
C21_FailedDeleteAllKeepsClosed ==
    [][(/\ calls' = calls + 1
        /\ lastOp'.op = "deleteAllTransactions"
        /\ lastOp'.result = "Failed to delete all transactions")
          => closed_positions' = closed_positions]_vars

-----------------------------------------------------------------------------
(* Properties of updateHoldingWithLiveData (specification SpecLive)          *)

\* the holdings of the dashboard that were given live data
UpdatedHoldings ==
    {i \in DOMAIN summary_holdings : "current_value_pln" \in DOMAIN summary_holdings[i]}

\* quantity * price * rate of three finite numbers, multiplied out
Product3(a, b, c) == Norm(a.n * b.n * c.n, a.d * b.d * c.d)

\* the values updateHoldingWithLiveData sets: current value and total return
LiveValuesOf(h) ==
    /\ h.current_value_pln = Product3(h.total_quantity, h.current_price, h.current_exchange_rate)
    /\ IsFinite(h.total_invested_pln) =>
          h.total_return_pln =
             Norm(h.current_value_pln.n * h.total_invested_pln.d
                    - h.total_invested_pln.n * h.current_value_pln.d,
                  h.current_value_pln.d * h.total_invested_pln.d)

\* C22: updateHoldingWithLiveData sets current_value_pln = quantity * price *
\* fxRate and total_return_pln = current value - cost basis, and for a holding
\* whose total_invested_pln is 0 the percent division is guarded:
\* total_return_percent is 0 or undefined, never NaN or an infinity.
C22_LiveDataGuarded ==
    \A i \in UpdatedHoldings :
        LET h == summary_holdings[i]
        IN  /\ LiveValuesOf(h)
            /\ h.total_invested_pln = Zero => h.total_return_percent \in {Zero, Undefined}

\* the part of C22 about the two values alone
C22_LiveValues ==
    \A i \in UpdatedHoldings : LiveValuesOf(summary_holdings[i])

\* the part of C22 about the percent alone, as the code has it: the division
\* by a total_invested_pln of 0 is made, and its result is NaN or an infinity
C22_UnguardedPercent ==
    \A i \in UpdatedHoldings :
        LET h == summary_holdings[i]
        IN  h.total_invested_pln = Zero => ~IsFinite(h.total_return_percent)

\* a holding bought at price 0 and one bought at 100 were both given a quote
C22_LiveWitness ==
    /\ Cardinality(UpdatedHoldings) = 2
    /\ \E i \in UpdatedHoldings : summary_holdings[i].total_invested_pln = Zero
    /\ \E i \in UpdatedHoldings : Gt(summary_holdings[i].total_return_pln, Zero)

-----------------------------------------------------------------------------
(* Properties of the replay when a ticker is sold out (specification         *)
(* SpecReplay)                                                               *)

\* the day the replay has just finished
ReplayedDay == pd_currentDate - 1

\* a ticker whose transactions up to the replayed day end with a SELL that
\* took its quantity from above zero to exactly zero
SoldOut(ticker) ==
    LET txs == RefTickerTransactions(ticker, ReplayedDay)
    IN  /\ txs # <<>>
        /\ Last(txs).transaction_type = "SELL"
        /\ Gt(RefPosition(Front(txs)).quantity, Zero)
        /\ RefPosition(txs).quantity = Zero

\* a ticker of which more was bought than sold up to the replayed day
NetHeld(ticker) == RefNet(RefTickerTransactions(ticker, ReplayedDay), ticker) > 0

\* the point of the replayed day is there and is made of the other tickers
PointWithout(ticker) ==
    LET others == {t \in Tickers \ {ticker} : isHeld(pd_holdings[t])}
    IN  /\ LastDayHasPoint
        /\ Last(pd_result).totalCostBasis =
              SumNumbers([t \in others |-> pd_holdings[t].costBasis], others)
        /\ Last(pd_result).totalMarketValue =
              SumNumbers([t \in others |->
                            marketValueOf(pd_holdings[t], dayPriceOf(t, ReplayedDay))],
                         others)

\* C23: in the replay, on the day a ticker is sold down to exactly zero while
\* another ticker is still held, and on every following day on which that is
\* so, a point is emitted, and the sold-out ticker adds nothing to its
\* totalCostBasis or totalMarketValue.
C23_SellOutKeepsSeries ==
    (pd_pc \in {"replay", "done"} /\ hook_transactions # <<>> /\ ReplayedDay >= 1) =>
       \A a \in Tickers :
          (SoldOut(a) /\ \E b \in Tickers \ {a} : NetHeld(b)) => PointWithout(a)

\* no SELL of the ticker, up to the replayed day, was of more than was at hand
RECURSIVE NeverOversold(_)
NeverOversold(txs) ==
    IF txs = <<>> THEN TRUE
    ELSE /\ NeverOversold(Front(txs))
         /\ Last(txs).transaction_type = "SELL" =>
               Le(Last(txs).quantity, RefPosition(Front(txs)).quantity)

\* the same for lists in which the other ticker was never sold beyond what
\* was at hand
C23_SellOutKeepsSeriesUnlessOversold ==
    (pd_pc \in {"replay", "done"} /\ hook_transactions # <<>> /\ ReplayedDay >= 1) =>
       \A a \in Tickers :
          (/\ SoldOut(a)
           /\ \E b \in Tickers \ {a} :
                 NetHeld(b) /\ NeverOversold(RefTickerTransactions(b, ReplayedDay)))
            => PointWithout(a)

\* a ticker was sold out on day 2 next to a held one, and the replay has gone
\* on to today with a point on every day
C23_SoldOutWitness ==
    /\ pd_pc = "done"
    /\ Len(pd_result) = Today
    /\ \E a \in Tickers :
          /\ SoldOut(a)
          /\ RefTickerTransactions(a, 1) # <<>>
          /\ Last(RefTickerTransactions(a, ReplayedDay)).transaction_date = 2
          /\ \E b \in Tickers \ {a} : isHeld(pd_holdings[b])

-----------------------------------------------------------------------------
(* Properties of the order of the replay (specification SpecHistory)         *)

\* the positions of sortedTransactions dated on a day
DatedOn(day) ==
    {i \in DOMAIN sortedTransactions : sortedTransactions[i].transaction_date = day}

\* the running state of a ticker after exactly its transactions dated on or
\* before a day, each applied once, oldest first
RefRunningState(ticker, day) ==
    IF RefTickerTransactions(ticker, day) = <<>> THEN Undefined
    ELSE RefPosition(RefTickerTransactions(ticker, day))

\* one iteration of the day loop
ReplayOrderStep ==
    (pd_pc = "replay" /\ pd_currentDate' = pd_currentDate + 1) =>
       /\ \A i \in DOMAIN sortedTransactions : \A j \in DOMAIN sortedTransactions :
             i < j => sortedTransactions[i].transaction_date
                        <= sortedTransactions[j].transaction_date
       /\ pd_txIndex..(pd_txIndex' - 1) = DatedOn(pd_currentDate)
       /\ \A t \in Tickers :
             IF RefRunningState(t, pd_currentDate) = Undefined
             THEN pd_holdings'[t] = Undefined
             ELSE /\ pd_holdings'[t] # Undefined
                  /\ pd_holdings'[t].quantity = RefRunningState(t, pd_currentDate).quantity
                  /\ pd_holdings'[t].costBasis = RefRunningState(t, pd_currentDate).costBasis
       /\ IF Gt(RefTotalCostBasis(pd_currentDate), Zero)
          THEN /\ Len(pd_result') = Len(pd_result) + 1
               /\ Last(pd_result').date = pd_currentDate
               /\ Last(pd_result').totalCostBasis = RefTotalCostBasis(pd_currentDate)
          ELSE pd_result' = pd_result
       /\ pd_pc' = "done" => pd_txIndex' = Len(sortedTransactions) + 1

\* C24: during buildPortfolioData every transaction dated from the start date
\* to today is applied to its ticker's running state exactly once, on the
\* iteration of its own day and before the totals of that day are computed:
\* the transactions are applied in non-decreasing date order, none is skipped
\* and none is applied twice.
C24_EachTransactionOnceOnItsDay == [][ReplayOrderStep]_vars

\* the replay has ended over a list with two transactions on one day and one
\* on a later day, and all three were applied
C24_Witness ==
    /\ pd_pc = "done"
    /\ Len(sortedTransactions) = MaxLen
    /\ pd_txIndex = MaxLen + 1
    /\ \E d \in Days : Cardinality(DatedOn(d)) = 2
    /\ sortedTransactions[1].transaction_date < sortedTransactions[MaxLen].transaction_date

-----------------------------------------------------------------------------
(* The average exchange rate of the replay against the one of the holdings   *)
(* aggregator (specification SpecHistory)                                    *)

\* the holding calculateHoldings gives a ticker for the transactions of the hook
AggregatorHolding(ticker) == findHolding(calculateHoldings(hook_transactions), ticker)

\* the tickers the replay holds when it has ended
HeldAtEnd == IF pd_pc = "done" THEN {t \in Tickers : isHeld(pd_holdings[t])} ELSE {}

\* the BUYs of a ticker, oldest first
BuysOf(ticker) ==
    SelectSeq(RefTickerTransactions(ticker, Today), LAMBDA tx : tx.transaction_type = "BUY")

OnlyBuys(ticker) == BuysOf(ticker) = RefTickerTransactions(ticker, Today)

SameRateBuys(ticker) ==
    \A i \in DOMAIN BuysOf(ticker) :
        BuysOf(ticker)[i].exchange_rate_to_pln = BuysOf(ticker)[1].exchange_rate_to_pln

\* the mean of the BUY rates of a ticker, each weighted by the cost in PLN of its BUY
CostWeightedRate(ticker) ==
    LET buys == BuysOf(ticker)
        cost(i) == Mul(Mul(buys[i].quantity, buys[i].price_per_share),
                       buys[i].exchange_rate_to_pln)
    IN  Div(SumSeq([i \in DOMAIN buys |-> Mul(buys[i].exchange_rate_to_pln, cost(i))]),
            SumSeq([i \in DOMAIN buys |-> cost(i)]))

\* the mean of the BUY rates of a ticker, each weighted by the quantity of its BUY
QuantityWeightedRate(ticker) ==
    LET buys == BuysOf(ticker)
    IN  Div(SumSeq([i \in DOMAIN buys |-> Mul(buys[i].exchange_rate_to_pln, buys[i].quantity)]),
            SumSeq([i \in DOMAIN buys |-> buys[i].quantity]))

\* C25: for every ticker still held on the final replayed day, the average
\* exchange rate of the replay state equals the avg_exchange_rate the holdings
\* aggregator computes from the same transactions.
C25_FinalRateEqualsAggregator ==
    \A t \in HeldAtEnd :
        /\ AggregatorHolding(t) # Null
        /\ pd_holdings[t].avgRate = AggregatorHolding(t).avg_exchange_rate

\* what holds instead: the aggregator's rate is the mean of the BUY rates
\* weighted by quantity, the replay's rate of a ticker that was only bought is
\* their mean weighted by cost in PLN, and the two agree on the final day for
\* a ticker whose BUYs all carry the same rate.
C25_FinalRateEqualWhenSameRate ==
    \A t \in HeldAtEnd :
        /\ AggregatorHolding(t) # Null
        /\ AggregatorHolding(t).avg_exchange_rate = QuantityWeightedRate(t)
        /\ OnlyBuys(t) => pd_holdings[t].avgRate = CostWeightedRate(t)
        /\ SameRateBuys(t) =>
              pd_holdings[t].avgRate = AggregatorHolding(t).avg_exchange_rate

\* the replay has ended holding a ticker bought twice at one rate with a SELL
\* in between, and a ticker bought once
C25_Witness ==
    /\ Cardinality(HeldAtEnd) >= 1
    /\ \E t \in HeldAtEnd :
          /\ SameRateBuys(t)
          /\ Len(BuysOf(t)) = 2
          /\ ~OnlyBuys(t)
          /\ RefTickerTransactions(t, Today)[2].transaction_type = "SELL"

\* the replay has ended holding a ticker bought at two different rates
C25_DifferentRatesWitness ==
    \E t \in HeldAtEnd :
        /\ OnlyBuys(t)
        /\ ~SameRateBuys(t)
        /\ pd_holdings[t].avgRate # AggregatorHolding(t).avg_exchange_rate

-----------------------------------------------------------------------------
(* Loads that were superseded while their price fetch was in flight          *)
(* (specification SpecCache)                                                 *)

\* the price fetch of the loadPortfolioData call made for txs resolves in this step
LoadResolves(txs) == txs \in inflight /\ inflight' = inflight \ {txs}

SupersededLoadStep ==
    \A txs \in inflight :
        (LoadResolves(txs) /\ txs # query_transactions) =>
           /\ history_data' = history_data
           /\ portfolio_cache' = portfolio_cache

\* C26: when the transaction list given to usePortfolioHistory has changed
\* while a price fetch started by loadPortfolioData was in flight, the result
\* of that superseded load is discarded when it arrives: it is not committed
\* as the displayed series and not saved to the cache, in whatever order the
\* loads complete.
C26_SupersededLoadDiscarded == [][SupersededLoadStep]_vars

\* the consequence at rest: with no load outstanding, the displayed series and
\* the cached one are those of the current transaction list
C26_CurrentSeriesAtRest ==
    (CacheQuiescent /\ query_transactions.length # 0) =>
       /\ history_data = seriesOf(query_transactions)
       /\ portfolio_cache # Null => portfolio_cache.data = seriesOf(query_transactions)

-----------------------------------------------------------------------------
(* Properties of loadPortfolioData with a cache (specification               *)
(* SpecIncremental)                                                          *)

\* a load without force refresh that finds a cache, over a non-empty list
CachedLoad ==
    /\ pd_fetched'.loads = pd_fetched.loads + 1
    /\ ~pd_fetched'.forceRefresh
    /\ hook_transactions # <<>>
    /\ pd_cache # Null

IncrementalLoadStep ==
    CachedLoad =>
       LET request == pd_fetched'.request
           cached == pd_cache.priceHistory
           saved == pd_cache'.priceHistory
       IN  IF pd_cache.lastUpdated = pd_today
           THEN /\ request = Null
                /\ pd_data' = pd_cache.data
                /\ pd_cache' = pd_cache
           ELSE /\ request # Null
                /\ request.startDate = pd_cache.lastUpdated + 1
                /\ request.endDate = pd_today
                /\ \A t \in Tickers : \A d \in Days :
                      /\ request.prices[t][d] # Undefined => d > pd_cache.lastUpdated
                      /\ cached[t][d] # Undefined => saved[t][d] = cached[t][d]
                      /\ request.prices[t][d] # Undefined => saved[t][d] = request.prices[t][d]
                      /\ saved[t][d] # Undefined =>
                            (cached[t][d] # Undefined \/ request.prices[t][d] # Undefined)
                /\ pd_cache'.lastUpdated = pd_today

\* C27: with a cache whose lastUpdated is today and no force refresh,
\* loadPortfolioData fetches no prices and returns the cached series; with an
\* older cache it fetches prices only for the days from lastUpdated + 1
\* through today, never a day at or before lastUpdated, and the price map it
\* saves holds every (ticker, date) entry of the cache and the newly fetched
\* ones, and nothing else.
C27_IncrementalFetchKeepsPriceMap == [][IncrementalLoadStep]_vars

\* the last load extended a cache of an earlier day: it fetched from the day
\* after lastUpdated, got a price, and the saved map still has a price of a
\* day before the fetch
C27_Witness ==
    /\ pd_fetched.loads >= 2
    /\ ~pd_fetched.forceRefresh
    /\ pd_fetched.request # Null
    /\ pd_cache # Null
    /\ pd_fetched.request.startDate > getEarliestTransactionDate
    /\ \E t \in Tickers : \E d1 \in Days : \E d2 \in Days :
          /\ d1 < pd_fetched.request.startDate
          /\ pd_cache.priceHistory[t][d1] # Undefined
          /\ pd_fetched.request.prices[t][d2] # Undefined
          /\ pd_cache.priceHistory[t][d2] = pd_fetched.request.prices[t][d2]

\* the last load found the cache of today and fetched nothing
C27_UpToDateWitness ==
    /\ pd_fetched.loads >= 2
    /\ ~pd_fetched.forceRefresh
    /\ pd_fetched.request = Null
    /\ pd_cache # Null
    /\ pd_cache.lastUpdated = pd_today
    /\ pd_data = pd_cache.data
    /\ hook_transactions # <<>>

-----------------------------------------------------------------------------
(* The running state of the replay under SELLs that come before any BUY      *)
(* (specification SpecHistory)                                               *)

\* a number that is neither NaN nor infinite, and not below zero
WellDefinedNonNegative(x) == IsFinite(x) /\ Le(Zero, x)

\* the quantity a ticker had in the replay just before the transaction at
\* position i of sortedTransactions was applied
PreQuantity(i) ==
    RefPosition(SelectSeq(SubSeq(sortedTransactions, 1, i - 1),
                          LAMBDA tx : tx.ticker = sortedTransactions[i].ticker)).quantity

\* C28: in every state of the replay each ticker's running quantity and cost
\* basis are well-defined numbers >= 0, and every SELL that was applied found
\* a quantity > 0, so that sellQty / preSellQty never divided by zero; also
\* for lists with a SELL dated before, or sorted before, the first BUY of its
\* ticker.
C28_RunningStateWellDefined ==
    (pd_pc \in {"replay", "done"}) =>
       /\ \A t \in Tickers :
             pd_holdings[t] # Undefined =>
                /\ WellDefinedNonNegative(pd_holdings[t].quantity)
                /\ WellDefinedNonNegative(pd_holdings[t].costBasis)
       /\ \A i \in 1..(pd_txIndex - 1) :
             sortedTransactions[i].transaction_type = "SELL" => Gt(PreQuantity(i), Zero)

\* the part of C28 about the division alone
C28_NoSellOnZeroQuantity ==
    (pd_pc \in {"replay", "done"}) =>
       \A i \in 1..(pd_txIndex - 1) :
          sortedTransactions[i].transaction_type = "SELL" => PreQuantity(i) # Zero

\* what the replay does with a SELL of a ticker it has no quantity of: the
\* cost basis becomes NaN and stays NaN under later BUYs
C28_SellBeforeBuyWitness ==
    /\ pd_pc = "done"
    /\ \E t \in Tickers :
          /\ pd_holdings[t] # Undefined
          /\ IsNaN(pd_holdings[t].costBasis)
          /\ Gt(pd_holdings[t].quantity, Zero)
          /\ RefTickerTransactions(t, Today)[1].transaction_type = "SELL"

-----------------------------------------------------------------------------
(* Quantity and cost basis of the replay against the holdings aggregator     *)
(* (specification SpecHistory)                                               *)

\* C29: for every transaction list and every ticker held on the final
\* replayed day, the running quantity and cost basis of the replay equal the
\* total_quantity and total_invested_pln the holdings aggregator computes for
\* that ticker, also when BUYs follow a partial SELL.
C29_ReplayEqualsAggregator ==
    \A t \in HeldAtEnd :
        /\ AggregatorHolding(t) # Null
        /\ pd_holdings[t].quantity = AggregatorHolding(t).total_quantity
        /\ pd_holdings[t].costBasis = AggregatorHolding(t).total_invested_pln

\* some BUY of the ticker comes after a SELL of it
BuyAfterSell(ticker) ==
    LET txs == RefTickerTransactions(ticker, Today)
    IN  \E i \in DOMAIN txs : \E j \in DOMAIN txs :
           i < j /\ txs[i].transaction_type = "SELL" /\ txs[j].transaction_type = "BUY"

\* what holds instead: the quantities agree for every list, the cost bases
\* for the tickers all of whose BUYs come before all of their SELLs
C29_EqualUnlessBuyAfterSell ==
    \A t \in HeldAtEnd :
        /\ AggregatorHolding(t) # Null
        /\ pd_holdings[t].quantity = AggregatorHolding(t).total_quantity
        /\ ~BuyAfterSell(t) =>
              pd_holdings[t].costBasis = AggregatorHolding(t).total_invested_pln

\* a ticker bought twice and then partly sold is held at the end
C29_PartialSellWitness ==
    \E t \in HeldAtEnd :
        /\ ~BuyAfterSell(t)
        /\ Len(BuysOf(t)) = 2
        /\ ~OnlyBuys(t)
        /\ ~SameRateBuys(t)

\* a ticker bought, partly sold and bought again is held at the end, its
\* cost basis well defined and different from the aggregator's
C29_BuyAfterSellWitness ==
    \E t \in HeldAtEnd :
        /\ BuyAfterSell(t)
        /\ IsFinite(pd_holdings[t].costBasis)
        /\ pd_holdings[t].costBasis # AggregatorHolding(t).total_invested_pln

-----------------------------------------------------------------------------
(* Short positions (specification SpecAdd: addTransaction calls only)        *)

\* the holding of the ticker of a closed position among the rows stored
\* before the call that wrote it
HoldingBeforeSale(c) ==
    findHolding(calculateHoldings(SelectSeq(transactions,
                                            LAMBDA r : /\ r.user_id = c.user_id
                                                       /\ r.id < c.id
                                                       /\ r.ticker = c.ticker)),
                c.ticker)

\* C30: after any sequence of addTransaction calls no ticker has a negative
\* net quantity (the SELL quantities never exceed the BUY quantities), and no
\* closed position has a quantity_sold above the total_quantity of the holding
\* computed just before the sale.
C30_NoShortPositions ==
    /\ \A t \in Tickers : RefNet(transactions, t) >= 0
    /\ \A i \in DOMAIN closed_positions :
          /\ HoldingBeforeSale(closed_positions[i]) # Null
          /\ Le(closed_positions[i].quantity_sold,
                HoldingBeforeSale(closed_positions[i]).total_quantity)

\* the first part of C30 alone
C30_NetQuantityNotNegative == \A t \in Tickers : RefNet(transactions, t) >= 0

\* the second part of C30 alone
C30_ClosedWithinHolding ==
    \A i \in DOMAIN closed_positions :
        /\ HoldingBeforeSale(closed_positions[i]) # Null
        /\ Le(closed_positions[i].quantity_sold,
              HoldingBeforeSale(closed_positions[i]).total_quantity)

\* what the code does keep: a closed position is only written for a ticker
\* that had a holding just before the sale
C30_ClosedHadHolding ==
    \A i \in DOMAIN closed_positions : HoldingBeforeSale(closed_positions[i]) # Null

====
